---- MODULE Spec2Model ----
(***************************************************************************)
(* NICU frame triage: image quality scoring, face detection fusion,        *)
(* occlusion scoring and the combined per-frame verdict of                 *)
(* backend/api/services/image_quality.py, and the video pipeline of        *)
(* backend/api/services/video_processor.py: frame extraction, adjacent     *)
(* frame smoothing and the summary.                                        *)
(*                                                                         *)
(* Numbers.  The code computes in floating point; the model computes the   *)
(* same expressions exactly, in fixed point:                               *)
(*   - pixel statistics (mean, std-dev, Laplacian variance) are integers;  *)
(*   - quality and occlusion scores are counted in 1/ScoreUnit points;     *)
(*   - detector confidences are counted in 1/ConfUnit;                     *)
(*   - the combined score is counted in 1/OverallUnit points;              *)
(*   - frame rates are counted in 1/RateUnit frames per second, reported   *)
(*     scores in tenths of a point, timestamps in hundredths of a second   *)
(*     and blended scores in 1/BlendUnit points.                           *)
(* An image is represented by what the analyzers measure on it.            *)
(***************************************************************************)
EXTENDS Integers, Sequences, FiniteSets, TLC

VARIABLES
    pc,          \* "idle": no call in progress; "done": a call has returned
    quality,     \* QualityMetrics returned by ImageQualityAnalyzer.analyze
    occlusion,   \* OcclusionMetrics returned by OcclusionAnalyzer.analyze
    detector,    \* what OcclusionAnalyzer.__init__ managed to load
    result,      \* dict returned by NICUImageAnalyzer.analyze_image
    previous,    \* the "overall" section of the preceding analyze_image result
    processor,        \* video_processor._processor, the VideoProcessor singleton
    cap,              \* the cv2.VideoCapture of the video being analysed
    vpc,              \* position of the video request (views.analyze_video)
    frame_interval,   \* locals of VideoProcessor._process_video_capture
    frame_number,
    extracted_count,
    frame_results,
    counts,           \* its counters and usable_indices
    response,         \* what the caller of analyze_video receives
    temp_file,        \* the file at temp_path of process_video_bytes
    bpc,              \* position of the batch request (views.analyze_batch)
    images,           \* its locals: the list of base64 strings,
    results,          \* the per-image results gathered so far
    summary,          \* and the counters
    batch_response,   \* what the caller of analyze_batch receives
    base64_image,     \* the string views.analyze_image was posted
    active_connections,   \* routers/ws.py: manager.active_connections
    handler,          \* where the endpoint coroutine of each WebSocket stands
    cursor,           \* broadcast of that coroutine: index of its list iterator,
    connection,       \* the connection it is sending to,
    disconnected,     \* its list of failed connections,
    sent,             \* the connections its message went out to,
    present,          \* and those in active_connections ever since it started
    instances,        \* the VideoProcessor objects made so far, by identity
    singleton,        \* video_processor._processor as a reference (0: None)
    gpc,              \* where each thread calling get_processor stands,
    requested,        \* the extraction_fps it passed
    handed            \* and the reference it was returned

imageVars == <<pc, quality, occlusion, result, previous>>
videoVars == <<processor, cap, vpc, frame_interval, frame_number,
               extracted_count, frame_results, counts, response, temp_file>>
batchVars == <<bpc, images, results, summary, batch_response>>
wsVars == <<active_connections, handler, cursor, connection, disconnected,
            sent, present>>
singletonVars == <<instances, singleton, gpc, requested, handed>>
otherVars == <<batchVars, base64_image, wsVars, singletonVars>>
vars == <<pc, quality, occlusion, detector, result, previous, processor, cap,
          vpc, frame_interval, frame_number, extracted_count, frame_results,
          counts, response, temp_file, bpc, images, results, summary,
          batch_response, base64_image, active_connections, handler, cursor,
          connection, disconnected, sent, present, instances, singleton, gpc,
          requested, handed>>

None == "None"

Min(a, b) == IF a <= b THEN a ELSE b
Max(a, b) == IF a >= b THEN a ELSE b
Abs(a) == IF a >= 0 THEN a ELSE 0 - a

(***************************************************************************)
(* Fixed-point units.                                                      *)
(***************************************************************************)
ScoreUnit == 20                  \* finest division in the quality score: /20
ConfUnit == 100                  \* confidences in hundredths
OverallUnit == ScoreUnit * 10    \* 0.7 / 0.3 weights of a 1/20 score

Pts(n) == n * ScoreUnit          \* n score points

(***************************************************************************)
(* ImageQualityAnalyzer                                                    *)
(***************************************************************************)
DARK_THRESHOLD == 25
BRIGHT_THRESHOLD == 240
BLUR_THRESHOLD == 100
CONTRAST_THRESHOLD == 30
MIN_RESOLUTION == 64
OPTIMAL_BRIGHTNESS == 128
MAX_PIXEL == 255

\* issue and recommendation texts (numbers formatted into the f-strings are
\* kept as their placeholders)
IssueDark == "Image too dark (intensity: {mean_brightness:.1f}, threshold: {DARK_THRESHOLD})"
IssueBright == "Image overexposed (intensity: {mean_brightness:.1f})"
IssueBlurry == "Image is blurry (sharpness: {laplacian_variance:.1f}, threshold: {BLUR_THRESHOLD})"
IssueContrast == "Low contrast (score: {contrast_score:.1f})"
IssueResolution == "Resolution too low ({width}x{height})"
RecLighting == "Improve lighting conditions during capture"
RecHistogram == "Consider histogram equalization preprocessing"
RecExposure == "Reduce lighting or camera exposure"
RecFocus == "Ensure camera is focused properly"
RecShutter == "Reduce motion blur with faster shutter speed"
RecCLAHE == "Apply contrast enhancement (CLAHE)"
RecResolution == "Use higher resolution camera or move closer"
RecAcceptable == "Image quality is acceptable for annotation"

\* the four checks, lines 109-148
IsTooDark_Strict(mean) == mean < DARK_THRESHOLD
IsTooDark(mean) == mean <= DARK_THRESHOLD
IsTooBright(mean) == mean >= BRIGHT_THRESHOLD
IsBlurry(lapvar) == lapvar < BLUR_THRESHOLD
IsLowContrast(std) == std < CONTRAST_THRESHOLD
ResolutionAdequate(width, height) == Min(width, height) >= MIN_RESOLUTION

\* the penalties, lines 153-174, in 1/ScoreUnit points
BrightnessPenalty(mean) ==
    IF IsTooDark(mean)
    THEN Min(Pts(40), (DARK_THRESHOLD - mean) * 2 * ScoreUnit)
    ELSE IF IsTooBright(mean)
         THEN Min(Pts(30), ((mean - BRIGHT_THRESHOLD) * ScoreUnit) \div 2)
         ELSE Min(Pts(10), (Abs(mean - OPTIMAL_BRIGHTNESS) * ScoreUnit) \div 20)

BlurPenalty(lapvar) ==
    IF IsBlurry(lapvar)
    THEN Min(Pts(30), ((BLUR_THRESHOLD - lapvar) * ScoreUnit) \div 5)
    ELSE 0

ContrastPenalty(std) ==
    IF IsLowContrast(std)
    THEN Min(Pts(20), (CONTRAST_THRESHOLD - std) * ScoreUnit)
    ELSE 0

ResolutionPenalty(width, height) ==
    IF ResolutionAdequate(width, height) THEN 0 ELSE Pts(20)

QualityUsability_Floor45(score) ==
    IF score >= Pts(70) THEN "usable"
    ELSE IF score >= Pts(45) THEN "marginal"
    ELSE "unusable"
QualityUsability(score) ==
    IF score >= Pts(70) THEN "usable"
    ELSE IF score >= Pts(40) THEN "marginal"
    ELSE "unusable"

QualityIssues(img) ==
    (IF IsTooDark(img.mean) THEN <<IssueDark>>
     ELSE IF IsTooBright(img.mean) THEN <<IssueBright>> ELSE <<>>)
    \o (IF IsBlurry(img.lapvar) THEN <<IssueBlurry>> ELSE <<>>)
    \o (IF IsLowContrast(img.std) THEN <<IssueContrast>> ELSE <<>>)
    \o (IF ResolutionAdequate(img.width, img.height)
        THEN <<>> ELSE <<IssueResolution>>)

QualityRecommendations(img) ==
    LET recs ==
            (IF IsTooDark(img.mean) THEN <<RecLighting, RecHistogram>>
             ELSE IF IsTooBright(img.mean) THEN <<RecExposure>> ELSE <<>>)
            \o (IF IsBlurry(img.lapvar) THEN <<RecFocus, RecShutter>> ELSE <<>>)
            \o (IF IsLowContrast(img.std) THEN <<RecCLAHE>> ELSE <<>>)
            \o (IF ResolutionAdequate(img.width, img.height)
                THEN <<>> ELSE <<RecResolution>>)
    IN  IF recs = <<>> THEN <<RecAcceptable>> ELSE recs

\* ImageQualityAnalyzer.analyze
QualityAnalyze(img) ==
    LET score == Pts(100) - BrightnessPenalty(img.mean) - BlurPenalty(img.lapvar)
                 - ContrastPenalty(img.std)
                 - ResolutionPenalty(img.width, img.height)
        overall_score == Max(0, Min(Pts(100), score))
    IN  [mean_brightness |-> img.mean,
         brightness_std |-> img.std,
         is_too_dark |-> IsTooDark(img.mean),
         is_too_bright |-> IsTooBright(img.mean),
         laplacian_variance |-> img.lapvar,
         is_blurry |-> IsBlurry(img.lapvar),
         contrast_score |-> img.std,
         is_low_contrast |-> IsLowContrast(img.std),
         width |-> img.width,
         height |-> img.height,
         resolution_adequate |-> ResolutionAdequate(img.width, img.height),
         overall_score |-> overall_score,
         usability |-> QualityUsability(overall_score),
         issues |-> QualityIssues(img),
         recommendations |-> QualityRecommendations(img)]

(***************************************************************************)
(* OcclusionAnalyzer                                                       *)
(***************************************************************************)
CONFIDENCE_DETECTED == 50        \* 0.5
CONFIDENCE_UNCERTAIN == 20       \* 0.2
HAAR_ONLY_CONFIDENCE == 35       \* 0.35
DUAL_BOOST == 15                 \* 0.15
DUAL_BOOST_CAP == 60             \* 0.6
PARTIAL_CONFIDENCE == 60         \* 0.6
LANDMARKS_EXPECTED == 468
RatioUnit == LANDMARKS_EXPECTED * 10    \* ratios counted in 1/4680
LANDMARK_RATIO_MIN == 7 * LANDMARKS_EXPECTED    \* 0.7

CauseNotDetected == <<"Face not detected - possibly fully occluded",
                      "May be due to medical equipment (tubes, tape, monitors)",
                      "Extreme head pose or face out of frame">>
CauseUncertain == <<"Face detection borderline - may need manual review",
                    "Could be slight head turn, motion blur, or partial occlusion">>
CauseLowConfidence == <<"Low detection confidence suggests partial occlusion",
                        "Possible causes: CPAP mask, nasal cannula, medical tape">>
CauseLandmarks == <<"Some facial landmarks not visible",
                    "Partial equipment occlusion or head rotation">>
RecsNotDetected == <<"Reposition camera or wait for clearer view",
                     "Check for equipment obstruction">>
RecsUncertain == <<"Consider checking adjacent frames",
                   "May be usable with manual verification">>
RecsLowConfidence == <<"Frame may still be usable but flag for manual review">>
RecsLandmarks == <<"Consider for annotation with 'partial visibility' flag">>
RecsVisible == <<"Face clearly visible - suitable for annotation">>

\* what OcclusionAnalyzer.__init__ leaves behind: the Haar cascade always, the
\* MediaPipe objects as far as the try block got
NotConstructed ==
    [constructed |-> FALSE, mp_face_detection |-> FALSE, mp_face_mesh |-> FALSE]
Constructed(fd, fm) ==
    [constructed |-> TRUE, mp_face_detection |-> fd, mp_face_mesh |-> fm]
\* import fails; FaceDetection built, FaceMesh raises; both built
InitOutcomes == {Constructed(FALSE, FALSE), Constructed(TRUE, FALSE),
                 Constructed(TRUE, TRUE)}

\* the primary (MediaPipe) pass, lines 257-297: provisional verdict
PrimaryPass_Unguarded(det, img) ==
    IF img.mp_faces > 0
    THEN [face_detected |-> img.mp_conf >= CONFIDENCE_UNCERTAIN,
          status |-> IF img.mp_conf >= CONFIDENCE_DETECTED THEN "detected"
                     ELSE IF img.mp_conf >= CONFIDENCE_UNCERTAIN THEN "uncertain"
                     ELSE "not_detected",
          num_faces |-> img.mp_faces,
          confidence |-> img.mp_conf,
          bbox |-> "mediapipe_bbox"]
    ELSE [face_detected |-> FALSE, status |-> "not_detected", num_faces |-> 0,
          confidence |-> 0, bbox |-> None]
PrimaryPass(det, img) ==
    IF det.mp_face_detection /\ img.mp_faces > 0
    THEN [face_detected |-> img.mp_conf >= CONFIDENCE_UNCERTAIN,
          status |-> IF img.mp_conf >= CONFIDENCE_DETECTED THEN "detected"
                     ELSE IF img.mp_conf >= CONFIDENCE_UNCERTAIN THEN "uncertain"
                     ELSE "not_detected",
          num_faces |-> img.mp_faces,
          confidence |-> img.mp_conf,
          bbox |-> "mediapipe_bbox"]
    ELSE [face_detected |-> FALSE, status |-> "not_detected", num_faces |-> 0,
          confidence |-> 0, bbox |-> None]

\* the Haar pass and the fusion, lines 299-319
Fuse_HaarDetected(p, img) ==
    LET haar_detected == img.haar_faces > 0
    IN  IF ~p.face_detected /\ haar_detected
        THEN [face_detected |-> TRUE, status |-> "detected",
              num_faces |-> img.haar_faces,
              confidence |-> HAAR_ONLY_CONFIDENCE, bbox |-> "haar_bbox"]
        ELSE IF p.status = "uncertain" /\ haar_detected
        THEN LET c == Min(DUAL_BOOST_CAP, p.confidence + DUAL_BOOST)
             IN  [p EXCEPT !.confidence = c,
                           !.status = IF c >= CONFIDENCE_DETECTED
                                      THEN "detected" ELSE "uncertain"]
        ELSE p
Fuse_NoCap(p, img) ==
    LET haar_detected == img.haar_faces > 0
    IN  IF ~p.face_detected /\ haar_detected
        THEN [face_detected |-> TRUE, status |-> "uncertain",
              num_faces |-> img.haar_faces,
              confidence |-> HAAR_ONLY_CONFIDENCE, bbox |-> "haar_bbox"]
        ELSE IF p.status = "uncertain" /\ haar_detected
        THEN LET c == p.confidence + DUAL_BOOST
             IN  [p EXCEPT !.confidence = c,
                           !.status = IF c >= CONFIDENCE_DETECTED
                                      THEN "detected" ELSE "uncertain"]
        ELSE p
Fuse(p, img) ==
    LET haar_detected == img.haar_faces > 0
    IN  IF ~p.face_detected /\ haar_detected
        THEN [face_detected |-> TRUE, status |-> "uncertain",
              num_faces |-> img.haar_faces,
              confidence |-> HAAR_ONLY_CONFIDENCE, bbox |-> "haar_bbox"]
        ELSE IF p.status = "uncertain" /\ haar_detected
        THEN LET c == Min(DUAL_BOOST_CAP, p.confidence + DUAL_BOOST)
             IN  [p EXCEPT !.confidence = c,
                           !.status = IF c >= CONFIDENCE_DETECTED
                                      THEN "detected" ELSE "uncertain"]
        ELSE p

\* landmark pass, lines 321-341: number of landmarks seen, 0 when none
LandmarksVisible(det, f, img) ==
    IF f.face_detected /\ det.mp_face_mesh /\ img.mesh_landmarks > 0
    THEN img.mesh_landmarks ELSE 0

\* the decision table, lines 343-377
OcclusionRow(status, confidence, ratio) ==
    IF status = "not_detected"
    THEN [score |-> Pts(100), level |-> "severe",
          causes |-> CauseNotDetected, recs |-> RecsNotDetected]
    ELSE IF status = "uncertain"
    THEN [score |-> Pts(50), level |-> "uncertain",
          causes |-> CauseUncertain, recs |-> RecsUncertain]
    ELSE IF confidence < PARTIAL_CONFIDENCE
    THEN [score |-> Pts(40), level |-> "partial",
          causes |-> CauseLowConfidence, recs |-> RecsLowConfidence]
    ELSE IF ratio < LANDMARK_RATIO_MIN
    THEN [score |-> Pts(30), level |-> "partial",
          causes |-> CauseLandmarks, recs |-> RecsLandmarks]
    ELSE [score |-> Max(0, ((ConfUnit - confidence) * 20 * ScoreUnit) \div ConfUnit),
          level |-> "none", causes |-> <<>>, recs |-> RecsVisible]

FaceUsable_UncertainUnusable(face_detected, level) ==
    face_detected /\ level \notin {"severe", "uncertain"}
FaceUsable(face_detected, level) == face_detected /\ level \notin {"severe"}

\* OcclusionAnalyzer.analyze
OcclusionAnalyze(det, img) ==
    LET p == PrimaryPass(det, img)
        f == Fuse(p, img)
        visible == LandmarksVisible(det, f, img)
        ratio == IF visible > 0 THEN (visible * RatioUnit) \div LANDMARKS_EXPECTED
                 ELSE 0
        row == OcclusionRow(f.status, f.confidence, ratio)
    IN  [face_detected |-> f.face_detected,
         face_detection_status |-> f.status,
         num_faces |-> f.num_faces,
         face_confidence |-> f.confidence,
         face_bbox |-> f.bbox,
         landmarks_detected |-> visible > 0,
         landmarks_visible |-> visible,
         landmarks_expected |-> LANDMARKS_EXPECTED,
         landmark_visibility_ratio |-> ratio,
         occlusion_score |-> row.score,
         occlusion_level |-> row.level,
         likely_causes |-> row.causes,
         face_usable |-> FaceUsable(f.face_detected, row.level),
         recommendations |-> row.recs,
         \* locals of the call: the verdict before the Haar pass (line 297)
         \* and haar_detected (line 304)
         primary |-> p,
         haar_detected |-> img.haar_faces > 0]

(***************************************************************************)
(* NICUImageAnalyzer.analyze_image                                         *)
(***************************************************************************)
QUALITY_WEIGHT == 7              \* 0.7, in tenths
OCCLUSION_WEIGHT == 3            \* 0.3, in tenths
UNUSABLE_SCORE_CAP == 35
TOP_RECOMMENDATIONS == 5

RecCriticalDark == "CRITICAL: Image too dark for reliable analysis"
RecCriticalNoFace == "CRITICAL: No face detected - check for occlusion"
RecUncertainFace == "Face detection uncertain - may need manual review"

\* round(num / den) for num >= 0: nearest integer, a tie goes to the even one
\* (Python's round on a value that is exact)
RoundHalfEven(num, den) ==
    LET q == num \div den
        r == num % den
    IN  IF 2 * r < den THEN q
        ELSE IF 2 * r > den THEN q + 1
        ELSE IF q % 2 = 0 THEN q ELSE q + 1

\* round(x, 1) of a value counted in 1/unit: the result counts tenths
Round1(x, unit) == RoundHalfEven(x * 10, unit)

\* s[:n]
Prefix_NoCap(s, n) == s
Prefix(s, n) == SubSeq(s, 1, Min(n, Len(s)))

\* lines 420-436
MergedIssues(q, o) == q.issues \o o.likely_causes

MergedRecommendations(q, o) ==
    (IF q.is_too_dark THEN <<RecCriticalDark>> ELSE <<>>)
    \o (IF o.face_detection_status = "not_detected" THEN <<RecCriticalNoFace>>
        ELSE IF o.face_detection_status = "uncertain" THEN <<RecUncertainFace>>
        ELSE <<>>)
    \o q.recommendations
    \o o.recommendations

\* lines 438-452: the verdict, its score counted in 1/OverallUnit points
OverallVerdict_SwappedWeights(q, o) ==
    LET visible == Pts(100) - o.occlusion_score
        scale == OverallUnit \div ScoreUnit
    IN  IF q.usability = "unusable" \/ o.face_detection_status = "not_detected"
        THEN [usability |-> "unusable",
              score |-> Min(q.overall_score, Pts(UNUSABLE_SCORE_CAP)) * scale]
        ELSE IF o.face_detection_status = "uncertain"
        THEN [usability |-> "marginal",
              score |-> ((q.overall_score * OCCLUSION_WEIGHT
                          + visible * QUALITY_WEIGHT) * scale) \div 10]
        ELSE IF q.usability = "marginal" \/ o.occlusion_level = "partial"
        THEN [usability |-> "marginal",
              score |-> ((q.overall_score + visible) * scale) \div 2]
        ELSE [usability |-> "usable",
              score |-> ((q.overall_score + visible) * scale) \div 2]
OverallVerdict_NoCap(q, o) ==
    LET visible == Pts(100) - o.occlusion_score
        scale == OverallUnit \div ScoreUnit
    IN  IF q.usability = "unusable" \/ o.face_detection_status = "not_detected"
        THEN [usability |-> "unusable", score |-> q.overall_score * scale]
        ELSE IF o.face_detection_status = "uncertain"
        THEN [usability |-> "marginal",
              score |-> ((q.overall_score * QUALITY_WEIGHT
                          + visible * OCCLUSION_WEIGHT) * scale) \div 10]
        ELSE IF q.usability = "marginal" \/ o.occlusion_level = "partial"
        THEN [usability |-> "marginal",
              score |-> ((q.overall_score + visible) * scale) \div 2]
        ELSE [usability |-> "usable",
              score |-> ((q.overall_score + visible) * scale) \div 2]
OverallVerdict(q, o) ==
    LET visible == Pts(100) - o.occlusion_score
        scale == OverallUnit \div ScoreUnit
    IN  IF q.usability = "unusable" \/ o.face_detection_status = "not_detected"
        THEN [usability |-> "unusable",
              score |-> Min(q.overall_score, Pts(UNUSABLE_SCORE_CAP)) * scale]
        ELSE IF o.face_detection_status = "uncertain"
        THEN [usability |-> "marginal",
              score |-> ((q.overall_score * QUALITY_WEIGHT
                          + visible * OCCLUSION_WEIGHT) * scale) \div 10]
        ELSE IF q.usability = "marginal" \/ o.occlusion_level = "partial"
        THEN [usability |-> "marginal",
              score |-> ((q.overall_score + visible) * scale) \div 2]
        ELSE [usability |-> "usable",
              score |-> ((q.overall_score + visible) * scale) \div 2]

\* lines 454-503: the returned dict; rounded scores count tenths of a point,
\* the rounded ratio counts thousandths
ResultDict(q, o) ==
    LET v == OverallVerdict(q, o)
    IN  [quality |->
            [brightness |-> [mean |-> q.mean_brightness, std |-> q.brightness_std,
                             is_too_dark |-> q.is_too_dark,
                             is_too_bright |-> q.is_too_bright,
                             threshold_dark |-> DARK_THRESHOLD],
             blur |-> [laplacian_variance |-> q.laplacian_variance,
                       is_blurry |-> q.is_blurry, threshold |-> BLUR_THRESHOLD],
             contrast |-> [score |-> q.contrast_score,
                           is_low_contrast |-> q.is_low_contrast],
             resolution |-> [width |-> q.width, height |-> q.height,
                             adequate |-> q.resolution_adequate],
             overall_score |-> Round1(q.overall_score, ScoreUnit),
             usability |-> q.usability],
         occlusion |->
            [face_detected |-> o.face_detected,
             face_detection_status |-> o.face_detection_status,
             num_faces |-> o.num_faces,
             confidence |-> o.face_confidence,
             bbox |-> o.face_bbox,
             landmarks |-> [detected |-> o.landmarks_detected,
                            visible |-> o.landmarks_visible,
                            expected |-> o.landmarks_expected,
                            visibility_ratio |->
                                RoundHalfEven(o.landmark_visibility_ratio * 1000,
                                              RatioUnit)],
             occlusion_score |-> Round1(o.occlusion_score, ScoreUnit),
             occlusion_level |-> o.occlusion_level,
             likely_causes |-> o.likely_causes,
             face_usable |-> o.face_usable],
         overall |->
            [score |-> Round1(v.score, OverallUnit),
             usability |-> v.usability,
             issues |-> MergedIssues(q, o),
             recommendations |->
                Prefix(MergedRecommendations(q, o), TOP_RECOMMENDATIONS)],
         \* local of the call: overall_score before rounding
         overall_score |-> v.score]

(***************************************************************************)
(* Images.  An image is the record of what the analyzers measure on it:    *)
(* mean / std / lapvar of the grey levels, its size, the MediaPipe         *)
(* detections (their number and the score of the first), the number of     *)
(* Haar faces and the number of face-mesh landmarks (0: no mesh).          *)
(***************************************************************************)
Radius == 1          \* thresholds are sampled this far on both sides
MaxFaces == 2        \* most faces a detector reports

Around(t) == (t - Radius) .. (t + Radius)

\* what pixel data can produce: the variance of values in 0..MAX_PIXEL with a
\* given mean is at most mean * (MAX_PIXEL - mean), and the Laplacian kernel
\* amplifies the variance by at most 64 (its gain at the Nyquist frequency)
Feasible(mean, std, lapvar) ==
    /\ std * std <= mean * (MAX_PIXEL - mean)
    /\ lapvar <= 64 * std * std

NoFace == [mp_faces |-> 0, mp_conf |-> 0, haar_faces |-> 0, mesh_landmarks |-> 0]
PlainPixels == [mean |-> OPTIMAL_BRIGHTNESS, std |-> 2 * CONTRAST_THRESHOLD,
                lapvar |-> 2 * BLUR_THRESHOLD,
                width |-> 2 * MIN_RESOLUTION, height |-> 2 * MIN_RESOLUTION]

Image(px, face) ==
    [mean |-> px.mean, std |-> px.std, lapvar |-> px.lapvar,
     width |-> px.width, height |-> px.height,
     mp_faces |-> face.mp_faces, mp_conf |-> face.mp_conf,
     haar_faces |-> face.haar_faces, mesh_landmarks |-> face.mesh_landmarks]

Pixels(means, stds, lapvars, dims) ==
    {[mean |-> m, std |-> s, lapvar |-> l, width |-> d[1], height |-> d[2]] :
        <<m, s, l, d>> \in {t \in means \X stds \X lapvars \X dims :
                               Feasible(t[1], t[2], t[3])}}

Faces(confs, haars, meshes) ==
    {[mp_faces |-> 0, mp_conf |-> 0, haar_faces |-> h, mesh_landmarks |-> k] :
        h \in haars, k \in meshes}
    \cup {[mp_faces |-> t[1], mp_conf |-> t[2], haar_faces |-> h,
           mesh_landmarks |-> k] :
            t \in (1 .. MaxFaces) \X confs, h \in haars, k \in meshes}

\* ImageQualityAnalyzer alone: every threshold with its neighbourhood
MeanSamples == (0 .. DARK_THRESHOLD + Radius) \cup Around(OPTIMAL_BRIGHTNESS)
               \cup Around(BRIGHT_THRESHOLD) \cup {MAX_PIXEL}
StdSamples == {0, 5, 10, 20} \cup Around(CONTRAST_THRESHOLD)
LapvarSamples == {0, 50, 70} \cup Around(BLUR_THRESHOLD)
DimSamples == {<<w, 2 * MIN_RESOLUTION>> : w \in Around(MIN_RESOLUTION)}
              \cup {<<2 * MIN_RESOLUTION, h>> : h \in Around(MIN_RESOLUTION)}
              \cup {<<MIN_RESOLUTION \div 2, MIN_RESOLUTION \div 2>>}
QualityImages ==
    {Image(px, NoFace) : px \in Pixels(MeanSamples, StdSamples, LapvarSamples,
                                       DimSamples)}

\* OcclusionAnalyzer alone: every confidence in hundredths
LandmarkCounts == {0, 327, 328, 421, LANDMARKS_EXPECTED}
FaceImages ==
    {Image(PlainPixels, f) : f \in Faces(0 .. ConfUnit, 0 .. MaxFaces,
                                         LandmarkCounts)}

\* analyze_image: a coarser grid of both
FramePixels == Pixels({10, DARK_THRESHOLD, OPTIMAL_BRIGHTNESS, 250},
                      {0, 10, 20, 40}, {0, 70, 150},
                      {<<32, 32>>, <<128, 128>>})
FrameFaces == {f \in Faces({10, 35, 50, 80, 100}, {0, 1},
                           {0, 327, LANDMARKS_EXPECTED}) : f.mp_faces <= 1}
Frames == {Image(px, f) : px \in FramePixels, f \in FrameFaces}

\* a batch: a few of the frames
BatchFrames == {f \in Frames : /\ f.mean \in {10, OPTIMAL_BRIGHTNESS}
                               /\ f.width = 128
                               /\ f.std \in {0, 10, 20, 40}
                               /\ f.mp_conf \in {0, 35, 80, 100}
                               /\ f.mesh_landmarks # 327}

(***************************************************************************)
(* VideoProcessor (video_processor.py).  A frame rate counts hundredths of *)
(* a frame per second; a stored quality_score counts tenths of a point; a  *)
(* blended score counts 1/BlendUnit points (weights in tenths, the mean of *)
(* two neighbours in halves of a tenth).  The thumbnail, the video id, the *)
(* filename and the capture's frame-count metadata (total_frames,          *)
(* duration) are carried to the response untouched and are left out.       *)
(***************************************************************************)
RateUnit == 100
BlendUnit == 200
Rate(n) == n * RateUnit          \* n frames per second

BOOST_BOTH_DETECTED == 6         \* the blend weights, in tenths
BOOST_BOTH_UNCERTAIN == 5
BOOST_ONE_NEIGHBOUR == 4
BOOST_UNCERTAIN == 3
BOOST_USABLE == 70
BOOST_MARGINAL == 45
SMOOTHING_MIN_FRAMES == 3

NoteBoosted == "Face detection boosted by adjacent frames"
NotePartiallyBoosted == "Face detection partially boosted by adjacent frame"
NoteConfirmed == "Uncertain detection confirmed by adjacent frames"
ErrorNoFile == "No video file provided"
ErrorDecode == "Failed to decode video"
ZeroDivisionError == "ZeroDivisionError"

\* int(x / y) for y # 0: the quotient truncated towards zero
IntQuotient(x, y) ==
    IF (x < 0) = (y < 0) THEN Abs(x) \div Abs(y)
    ELSE 0 - (Abs(x) \div Abs(y))

\* line 272 divides by an extraction rate of 0
IntervalRaises(fps, extraction_fps) ==
    extraction_fps < fps /\ extraction_fps = 0

\* line 272: int(fps / extraction_fps) if extraction_fps < fps else 1
FrameInterval_RoundedUp(fps, extraction_fps) ==
    IF extraction_fps < fps
    THEN IntQuotient(fps + extraction_fps - 1, extraction_fps) ELSE 1
FrameInterval(fps, extraction_fps) ==
    IF extraction_fps < fps THEN IntQuotient(fps, extraction_fps) ELSE 1

\* line 295: frame_number % frame_interval == 0, for frame_interval # 0
\* (Python's % takes the sign of the divisor: the test is divisibility)
AtInterval(n, interval) == n % Abs(interval) = 0

\* lines 296, 314: round(frame_number / fps, 2) for fps > 0, in hundredths
TimestampSeconds_Truncated(n, fps) == (n * RateUnit * 100) \div fps
TimestampSeconds(n, fps) == RoundHalfEven(n * RateUnit * 100, fps)

\* lines 311-327: the frame record built from the analysis of the frame
FrameResult(count, n, fps, analysis) ==
    [frame_number |-> count,
     original_frame |-> n,
     timestamp_seconds |-> TimestampSeconds(n, fps),
     quality_score |-> analysis.overall.score,
     usability |-> analysis.overall.usability,
     brightness |-> analysis.quality.brightness.mean,
     is_too_dark |-> analysis.quality.brightness.is_too_dark,
     is_blurry |-> analysis.quality.blur.is_blurry,
     face_detected |-> analysis.occlusion.face_detected,
     face_detection_status |-> analysis.occlusion.face_detection_status,
     face_confidence |-> analysis.occlusion.confidence,
     occlusion_level |-> analysis.occlusion.occlusion_level,
     issues |-> analysis.overall.issues,
     recommendations |-> analysis.overall.recommendations]

\* lines 280-287
ZeroCounts ==
    [usable_count |-> 0, marginal_count |-> 0, unusable_count |-> 0,
     too_dark_count |-> 0, blurry_count |-> 0, no_face_count |-> 0,
     occluded_count |-> 0, usable_indices |-> <<>>]

Inc(b) == IF b THEN 1 ELSE 0

\* lines 331-347: the counters after one more extracted frame
CountFrame(c, count, analysis) ==
    LET u == analysis.overall.usability
        q == analysis.quality
        o == analysis.occlusion
    IN  [usable_count |-> c.usable_count + Inc(u = "usable"),
         marginal_count |-> c.marginal_count + Inc(u = "marginal"),
         unusable_count |->
            c.unusable_count + Inc(u \notin {"usable", "marginal"}),
         too_dark_count |-> c.too_dark_count + Inc(q.brightness.is_too_dark),
         blurry_count |-> c.blurry_count + Inc(q.blur.is_blurry),
         no_face_count |-> c.no_face_count + Inc(~o.face_detected),
         occluded_count |->
            c.occluded_count
            + Inc(o.face_detected /\ o.occlusion_level \in {"partial", "severe"}),
         usable_indices |->
            IF u = "usable" THEN Append(c.usable_indices, count)
            ELSE c.usable_indices]

\* 'Face not detected' in issue, 'borderline' in issue.lower(): among the
\* strings the analyzers and the smoothing pass write, the only matches
MentionsFaceNotDetected(issue) == issue = CauseNotDetected[1]
MentionsBorderline(issue) == issue = CauseUncertain[1]

HasFaceEvidence(frame) ==
    frame.face_detection_status \in {"detected", "uncertain"}

\* lines 103-104: the neighbours the pass looks at, as a sequence of 0 or 1
\* record; smoothed holds the frames already corrected
PrevFrame_Corrected(frames, smoothed, i) ==
    IF i > 1 THEN <<smoothed[i - 1]>> ELSE <<>>
PrevFrame(frames, smoothed, i) ==
    IF i > 1 THEN <<frames[i - 1]>> ELSE <<>>
NextFrame(frames, i) ==
    IF i < Len(frames) THEN <<frames[i + 1]>> ELSE <<>>

\* lines 110-133: the neighbours that show a face, previous one first
AdjacentEvidence(adjacent) ==
    LET with_face == SelectSeq(adjacent, HasFaceEvidence)
        detected == SelectSeq(adjacent,
                        LAMBDA f : f.face_detection_status = "detected")
    IN  [adjacent_detected_count |-> Len(detected),
         adjacent_any_face_count |-> Len(with_face),
         adjacent_scores |-> [k \in 1 .. Len(with_face) |->
                                  with_face[k].quality_score]]

\* line 138
BoostApplies_AnyFrame(status, any_face) == any_face >= 1
BoostApplies(status, any_face) ==
    status \in {"not_detected", "uncertain"} /\ any_face >= 1

\* line 140: sum(adjacent_scores) / len(adjacent_scores), in halves of a tenth
AvgAdjacentScore(scores) ==
    IF Len(scores) = 0 THEN 0
    ELSE IF Len(scores) = 1 THEN 2 * scores[1]
    ELSE scores[1] + scores[2]

\* lines 142, 150, 166, 172, 186, 193: the weight of the neighbours, in tenths
BoostFactor_Flat(status, any_face, detected) == BOOST_BOTH_DETECTED
BoostFactor(status, any_face, detected) ==
    IF status = "not_detected" /\ any_face = 2
    THEN (IF detected >= 1 THEN BOOST_BOTH_DETECTED ELSE BOOST_BOTH_UNCERTAIN)
    ELSE IF status = "not_detected" /\ any_face = 1 THEN BOOST_ONE_NEIGHBOUR
    ELSE BOOST_UNCERTAIN

\* lines 151, 172, 193: score * (1 - w) + avg * w, in 1/BlendUnit points
BoostedScore_NeighbourAverage(score, avg, w) == 10 * avg
BoostedScore(score, avg, w) == 2 * score * (10 - w) + avg * w

\* lines 155-158, 175-178, 196-199: 'usable' from 70, 'marginal' from 45,
\* below that the usability stays what it was
Usability_Recomputed(boosted_score, current_usability) ==
    IF boosted_score >= BOOST_USABLE * BlendUnit THEN "usable"
    ELSE IF boosted_score >= BOOST_MARGINAL * BlendUnit THEN "marginal"
    ELSE "unusable"
Usability_Kept(boosted_score, current_usability) == current_usability
BoostedUsability(boosted_score, current_usability) ==
    IF boosted_score >= BOOST_USABLE * BlendUnit THEN "usable"
    ELSE IF boosted_score >= BOOST_MARGINAL * BlendUnit THEN "marginal"
    ELSE current_usability

\* lines 160-164, 180-184, 201-205: a new list of issues
BoostedIssues(status, any_face, issues) ==
    IF status = "not_detected"
    THEN Append(SelectSeq(issues, LAMBDA x : ~MentionsFaceNotDetected(x)),
                IF any_face = 2 THEN NoteBoosted ELSE NotePartiallyBoosted)
    ELSE Append(SelectSeq(issues, LAMBDA x : ~MentionsBorderline(x)),
                NoteConfirmed)

\* lines 136-205: smoothed_frame for one frame and the neighbours it has
SmoothFrame(frame, adjacent) ==
    LET ev == AdjacentEvidence(adjacent)
        status == frame.face_detection_status
        any_face == ev.adjacent_any_face_count
        boosted_score ==
            BoostedScore(frame.quality_score,
                         AvgAdjacentScore(ev.adjacent_scores),
                         BoostFactor(status, any_face,
                                     ev.adjacent_detected_count))
    IN  IF BoostApplies(status, any_face)
        THEN [frame EXCEPT
                 !.quality_score = Round1(boosted_score, BlendUnit),
                 !.usability = BoostedUsability(boosted_score, frame.usability),
                 !.issues = BoostedIssues(status, any_face, frame.issues)]
             @@ [adjacent_boost |-> TRUE,
                 original_usability |-> frame.usability,
                 original_score |-> frame.quality_score]
        ELSE frame

\* line 136: frame.copy() is a dict of its own
DictCopy(frame) == [dict |-> frame, same_object |-> FALSE]

\* lines 99-209: the loop; what it returns and what it leaves in its argument
RECURSIVE SmoothingLoop(_, _, _)
SmoothingLoop(frames, smoothed, i) ==
    IF i > Len(frames)
    THEN [frame_results |-> frames, smoothed_results |-> smoothed]
    ELSE LET copy == DictCopy(frames[i])
             smoothed_frame ==
                 SmoothFrame(copy.dict,
                             PrevFrame(frames, smoothed, i)
                             \o NextFrame(frames, i))
         IN  SmoothingLoop(IF copy.same_object
                           THEN [frames EXCEPT ![i] = smoothed_frame]
                           ELSE frames,
                           Append(smoothed, smoothed_frame),
                           i + 1)

\* _apply_adjacent_frame_smoothing, lines 86-209
ApplyAdjacentFrameSmoothing_Always(frames) ==
    SmoothingLoop(frames, <<>>, 1)
ApplyAdjacentFrameSmoothing(frames) ==
    IF Len(frames) < SMOOTHING_MIN_FRAMES
    THEN [frame_results |-> frames, smoothed_results |-> frames]
    ELSE SmoothingLoop(frames, <<>>, 1)

\* lines 359-371: the counts and the indices of the smoothed frames
Positions(frames) == [k \in 1 .. Len(frames) |-> k]
BucketCount(frames, bucket) ==
    Len(SelectSeq(Positions(frames), LAMBDA k : frames[k].usability = bucket))
UsableIndices(frames) ==
    LET at == SelectSeq(Positions(frames),
                        LAMBDA k : frames[k].usability = "usable")
    IN  [j \in 1 .. Len(at) |-> at[j] - 1]

\* line 374
BoostedCount(frames) ==
    Len(SelectSeq(Positions(frames),
                  LAMBDA k : /\ "adjacent_boost" \in DOMAIN frames[k]
                             /\ frames[k].adjacent_boost))

\* _generate_recommendation, lines 409-430: the sentences it joins
GenerateRecommendation_Above80(usable, marginal, unusable, too_dark, blurry, no_face) ==
    LET total == usable + marginal + unusable
        Part(cond, text) == IF cond THEN <<text>> ELSE <<>>
    IN  IF total > 0 /\ 5 * usable > 4 * total
        THEN <<"Good quality video. Most frames are suitable for annotation.">>
        ELSE IF total > 0 /\ 2 * usable >= total
        THEN <<"Moderate quality. ">>
             \o Part(2 * too_dark > unusable,
                     "Consider improving lighting conditions. ")
             \o Part(2 * blurry > unusable,
                     "Camera focus or motion blur issues detected. ")
             \o <<"{usable} frames are ready for annotation.">>
        ELSE <<"Quality issues detected. ">>
             \o Part(10 * too_dark > 3 * total,
                     "CRITICAL: Lighting is too dark in many frames. ")
             \o Part(10 * no_face > 3 * total,
                     "Face detection failing frequently - check camera angle and occlusion. ")
             \o <<"Consider re-recording or adjusting NICU camera setup.">>
GenerateRecommendation(usable, marginal, unusable, too_dark, blurry, no_face) ==
    LET total == usable + marginal + unusable
        Part(cond, text) == IF cond THEN <<text>> ELSE <<>>
    IN  IF total > 0 /\ 5 * usable >= 4 * total
        THEN <<"Good quality video. Most frames are suitable for annotation.">>
        ELSE IF total > 0 /\ 2 * usable >= total
        THEN <<"Moderate quality. ">>
             \o Part(2 * too_dark > unusable,
                     "Consider improving lighting conditions. ")
             \o Part(2 * blurry > unusable,
                     "Camera focus or motion blur issues detected. ")
             \o <<"{usable} frames are ready for annotation.">>
        ELSE <<"Quality issues detected. ">>
             \o Part(10 * too_dark > 3 * total,
                     "CRITICAL: Lighting is too dark in many frames. ")
             \o Part(10 * no_face > 3 * total,
                     "Face detection failing frequently - check camera angle and occlusion. ")
             \o <<"Consider re-recording or adjusting NICU camera setup.">>

\* lines 359-371: the counters after the loop over the smoothed frames
Recount_Skipped(c, frames) == c
Recount(c, frames) ==
    [c EXCEPT
        !.usable_count = BucketCount(frames, "usable"),
        !.marginal_count = BucketCount(frames, "marginal"),
        \* the else branch: every other frame
        !.unusable_count = Len(frames) - BucketCount(frames, "usable")
                                       - BucketCount(frames, "marginal"),
        !.usable_indices = UsableIndices(frames)]

\* lines 376-407: the returned dict
VideoResult(fps, extraction_fps, count, c, frames) ==
    [fps |-> fps,
     total_frames_extracted |-> count,
     extraction_fps |-> extraction_fps,
     summary |-> [usable |-> c.usable_count,
                  marginal |-> c.marginal_count,
                  unusable |-> c.unusable_count,
                  usable_percentage |->
                      IF count > 0
                      THEN RoundHalfEven(c.usable_count * 1000, count) ELSE 0,
                  boosted_by_adjacent |-> BoostedCount(frames)],
     issues |-> [too_dark |-> c.too_dark_count, blurry |-> c.blurry_count,
                 no_face |-> c.no_face_count, occluded |-> c.occluded_count],
     frames |-> frames,
     usable_frame_indices |-> c.usable_indices,
     recommendation |->
         GenerateRecommendation(c.usable_count, c.marginal_count,
                                c.unusable_count, c.too_dark_count,
                                c.blurry_count, c.no_face_count)]

\* get_processor, lines 436-440, and VideoProcessor.__init__, lines 77-84
NoProcessor == [created |-> FALSE, extraction_fps |-> 0]
GetProcessor(current, extraction_fps) ==
    IF ~current.created \/ current.extraction_fps # extraction_fps
    THEN [created |-> TRUE, extraction_fps |-> extraction_fps]
    ELSE current

\* cv2.VideoCapture: whether it opened, its CAP_PROP_FPS
NoCapture == [opened |-> FALSE, fps |-> 0]

\* process_video_bytes, lines 239-256: the file at temp_path.  It does not
\* exist before line 242; lines 242-243 create it and write the upload to it
NoTempFile == [exists |-> FALSE]
StagedUpload(video) == [exists |-> TRUE, video |-> video]
\* the finally clause, lines 253-256
RemoveTempFile_Kept(file) == file
RemoveTempFile(file) == IF file.exists THEN NoTempFile ELSE file
OSError == "OSError"
CvError == "cv2.error"

(***************************************************************************)
(* NICUImageAnalyzer.analyze_from_base64 and views.analyze_batch.  A       *)
(* base64 string is the sequence of its characters, of four kinds: "A", a  *)
(* character of the base64 alphabet; "=", the padding character; ",", the  *)
(* comma that ends a data-URL header; "!", any other character.  What the  *)
(* decoded bytes hold is represented by what cv2.imdecode makes of them:   *)
(* an image, or NoPicture (None).                                          *)
(***************************************************************************)
Chars == {"A", "=", ",", "!"}
NoPicture == [none |-> TRUE]
ErrorImage == "Failed to decode image"
ErrorNoImages == "No images provided"
BinasciiError == "binascii.Error"

\* str.split(',')[1], line 509: what lies between the first comma and the
\* next one (or the end)
CommaFrom(text, from) ==
    LET at == {k \in from .. Len(text) : text[k] = ","}
    IN  IF at = {} THEN Len(text) + 1
        ELSE CHOOSE k \in at : \A j \in at : k <= j
StripHeader(text) ==
    IF \E k \in 1 .. Len(text) : text[k] = ","
    THEN LET first == CommaFrom(text, 1)
         IN  SubSeq(text, first + 1, CommaFrom(text, first + 1) - 1)
    ELSE text

\* base64.b64decode(s), line 511 (binascii.a2b_base64, not strict): characters
\* outside the alphabet are skipped, the padding that completes a group ends
\* the data, and an incomplete group at the end raises binascii.Error.
\* quad: position in the group of four; pads: padding characters seen in a
\* row; size: bytes decoded so far
RECURSIVE B64Scan(_, _, _, _, _)
B64Scan(text, k, quad, pads, size) ==
    IF k > Len(text)
    THEN [raised |-> quad # 0, size |-> size]
    ELSE IF text[k] = "="
    THEN IF quad >= 2 /\ quad + pads + 1 >= 4
         THEN [raised |-> FALSE, size |-> size]
         ELSE B64Scan(text, k + 1, quad,
                      IF quad >= 2 THEN pads + 1 ELSE pads, size)
    ELSE IF text[k] # "A"
    THEN B64Scan(text, k + 1, quad, pads, size)
    ELSE B64Scan(text, k + 1, (quad + 1) % 4, 0,
                 IF quad >= 1 THEN size + 1 ELSE size)
B64Decode(text) == B64Scan(text, 1, 0, 0, 0)

\* analyze_from_base64, lines 505-518.  input: the string and what its bytes
\* hold; empty_raises: whether this OpenCV raises on an empty buffer (4.x)
\* or returns None
AnalyzeFromBase64(det, input, empty_raises) ==
    LET image_data == B64Decode(StripHeader(input.text))
    IN  IF image_data.raised THEN [raised |-> BinasciiError]
        ELSE IF image_data.size = 0
        THEN IF empty_raises THEN [raised |-> CvError]
             ELSE [error |-> ErrorImage]
        ELSE IF input.picture = NoPicture THEN [error |-> ErrorImage]
        ELSE ResultDict(QualityAnalyze(input.picture),
                        OcclusionAnalyze(det, input.picture))

\* views.analyze_batch, lines 347-360 and 367-386: the summary and its update
ZeroSummary(total) ==
    [total |-> total, usable |-> 0, marginal |-> 0, unusable |-> 0,
     issues |-> [too_dark |-> 0, too_bright |-> 0, blurry |-> 0,
                 low_contrast |-> 0, no_face |-> 0, occluded |-> 0]]
UpdateSummary(sum, r) ==
    IF "error" \in DOMAIN r THEN sum
    ELSE LET u == r.overall.usability
             q == r.quality
             o == r.occlusion
         IN  [total |-> sum.total,
              usable |-> sum.usable + Inc(u = "usable"),
              marginal |-> sum.marginal + Inc(u = "marginal"),
              unusable |-> sum.unusable + Inc(u = "unusable"),
              issues |->
                 [too_dark |-> sum.issues.too_dark + Inc(q.brightness.is_too_dark),
                  too_bright |->
                     sum.issues.too_bright + Inc(q.brightness.is_too_bright),
                  blurry |-> sum.issues.blurry + Inc(q.blur.is_blurry),
                  low_contrast |->
                     sum.issues.low_contrast + Inc(q.contrast.is_low_contrast),
                  no_face |-> sum.issues.no_face + Inc(~o.face_detected),
                  occluded |->
                     sum.issues.occluded
                     + Inc(o.face_detected
                           /\ o.occlusion_level \in {"partial", "severe"})]]

(***************************************************************************)
(* routers/ws.py: the ConnectionManager and the two WebSocket endpoints.   *)
(* The endpoints are coroutines of one event loop: each runs without       *)
(* interruption from one await to the next.                                *)
(***************************************************************************)
ValueError == "ValueError"
Range(list) == {list[k] : k \in 1 .. Len(list)}

\* list.remove(x), lines 26 and 37: the first x is taken out, and ValueError
\* is raised when there is none
ListRemove(list, x) ==
    IF x \notin Range(list) THEN [list |-> list, raised |-> TRUE]
    ELSE LET k == CHOOSE k \in 1 .. Len(list) :
                      /\ list[k] = x
                      /\ \A j \in 1 .. k - 1 : list[j] # x
         IN  [list |-> SubSeq(list, 1, k - 1) \o SubSeq(list, k + 1, Len(list)),
              raised |-> FALSE]

\* broadcast, lines 36-37: the loop over disconnected, from its k-th element
RECURSIVE RemoveDisconnected(_, _, _)
RemoveDisconnected(list, conns, k) ==
    IF k > Len(conns) THEN [list |-> list, raised |-> FALSE]
    ELSE LET removal == ListRemove(list, conns[k])
         IN  IF removal.raised THEN removal
             ELSE RemoveDisconnected(removal.list, conns, k + 1)

(***************************************************************************)
(* Videos.  A request is what views.analyze_video is handed: whether a     *)
(* file is attached, the extraction rate, and what OpenCV makes of the     *)
(* bytes (whether they open, the frame rate).                              *)
(***************************************************************************)
MaxSourceFrames == 8     \* most frames a capture delivers (extraction)
MaxVideoFrames == 3      \* most frames a capture delivers (smoothing)

Requests(fpss, rates) ==
    {[has_file |-> h, opened |-> o, fps |-> f, extraction_fps |-> r] :
        h \in BOOLEAN, o \in BOOLEAN, f \in fpss, r \in rates}

\* extraction: no rate, 2, 3, 29.97, 30 and 240 frames per second, asked for
\* at -1, -0.5, 0, 0.5, 1, 2, 7, 30 and 300 frames per second
FpsSamples == {0, Rate(2), Rate(3), 2997, Rate(30), Rate(240)}
RateSamples == {Rate(-1), -50, 0, 50, Rate(1), Rate(2), Rate(7), Rate(30),
                Rate(300)}
ExtractionRequests == Requests(FpsSamples, RateSamples)
ExtractionFrames == {Image(PlainPixels, f) :
                        f \in {f \in Faces({100}, {0}, {LANDMARKS_EXPECTED}) :
                                f.mp_faces <= 1}}

\* smoothing: a source of 2 frames per second sampled at 1 or 2, and frames of
\* quality 100, 70, 60, 40 and 20 with a confident face, a borderline face or
\* none
SmoothingRequests == Requests({Rate(2)}, {Rate(1), Rate(2)})
Flat == [PlainPixels EXCEPT !.std = 10]
ConfidentFace == [mp_faces |-> 1, mp_conf |-> ConfUnit, haar_faces |-> 1,
                  mesh_landmarks |-> LANDMARKS_EXPECTED]
BorderlineFace == [mp_faces |-> 1, mp_conf |-> HAAR_ONLY_CONFIDENCE,
                   haar_faces |-> 0, mesh_landmarks |-> 0]
Quality100 == PlainPixels
Quality70 == [Flat EXCEPT !.lapvar = BLUR_THRESHOLD \div 2]
Quality60 == [Flat EXCEPT !.lapvar = 0]
Quality40 == [Flat EXCEPT !.lapvar = 0, !.width = MIN_RESOLUTION \div 2]
Quality20 == [Flat EXCEPT !.lapvar = 0, !.mean = 5]
SmoothingFrames ==
    {Image(Quality20, NoFace), Image(Quality100, NoFace),
     Image(Quality20, ConfidentFace), Image(Quality60, ConfidentFace),
     Image(Quality70, ConfidentFace), Image(Quality100, ConfidentFace),
     Image(Quality40, BorderlineFace), Image(Quality100, BorderlineFace)}

\* base64 strings: every string of up to MaxTextLen characters, holding no
\* picture, a good one or a dark one without a face
MaxTextLen == 5
Texts == UNION {[1 .. n -> Chars] : n \in 0 .. MaxTextLen}
Pictures == {NoPicture, Image(Quality100, ConfidentFace),
             Image(Quality20, NoFace)}
Base64Inputs == {[text |-> t, picture |-> p] : t \in Texts, p \in Pictures}

\* batches: up to MaxBatch strings, each a usable picture, a marginal one
\* behind a header, bytes that are no picture, or text with an incomplete
\* last group
MaxBatch == 3
BatchInputs ==
    {[text |-> <<"A", "A", "A", "A">>,
      picture |-> Image(Quality100, ConfidentFace)],
     [text |-> <<"!", ",", "A", "A", "=", "=">>,
      picture |-> Image(Quality60, ConfidentFace)],
     [text |-> <<"A", "A", "A", "A">>, picture |-> NoPicture],
     [text |-> <<"A", "A", "A">>, picture |-> NoPicture]}
BatchRequests == UNION {[1 .. n -> BatchInputs] : n \in 0 .. MaxBatch}

\* get_processor: MaxThreads request threads, asking for 1 or 2 frames per
\* second, until MaxInstances processors have been made
MaxThreads == 2
MaxInstances == 3
Threads == 1 .. MaxThreads
ThreadRates == {Rate(1), Rate(2)}

\* WebSockets: up to MaxConnections clients, the first MaxMonitors of them
\* on /ws/monitor/{patient_id} (monitor_patient), the others on /ws/dashboard
\* (dashboard_feed)
MaxConnections == 3
MaxMonitors == 2
Monitors == 1 .. MaxMonitors
WebSockets == 1 .. MaxConnections

\* staging: uploads that open or not, at 0, 2 or 30 frames per second, asked
\* for at 0, 1 or 2, while writing the file or opening it may fail
MaxStagedFrames == 3     \* most frames a capture delivers (staging)
StagingRequests == Requests({0, Rate(2), Rate(30)}, {0, Rate(1), Rate(2)})
IOFaults == BOOLEAN
NoFaults == {FALSE}

\* the summary and its recommendation: one rate, longer videos of four kinds
\* of frame (usable; dark, blurry and unusable; blurry and marginal; no face)
MaxSummaryFrames == 5    \* most frames a capture delivers (summary)
SummaryRequests == Requests({Rate(2)}, {Rate(2)})
SummaryFrames ==
    {Image(Quality100, ConfidentFace), Image(Quality20, ConfidentFace),
     Image(Quality60, ConfidentFace), Image(Quality100, NoFace)}

(***************************************************************************)
(* The state machine.                                                      *)
(***************************************************************************)
Nothing == [none |-> TRUE]
NoVerdict == [score |-> -1, usability |-> None]

Init ==
    /\ pc = "idle"
    /\ quality = Nothing
    /\ occlusion = Nothing
    /\ detector = NotConstructed
    /\ result = Nothing
    /\ previous = NoVerdict
    /\ processor = NoProcessor
    /\ cap = NoCapture
    /\ vpc = "idle"
    /\ frame_interval = 0
    /\ frame_number = 0
    /\ extracted_count = 0
    /\ frame_results = <<>>
    /\ counts = ZeroCounts
    /\ response = Nothing
    /\ temp_file = NoTempFile
    /\ bpc = "idle"
    /\ images = <<>>
    /\ results = <<>>
    /\ summary = Nothing
    /\ batch_response = Nothing
    /\ base64_image = Nothing
    /\ active_connections = <<>>
    /\ handler = [ws \in WebSockets |-> "new"]
    /\ cursor = [ws \in WebSockets |-> 0]
    /\ connection = [ws \in WebSockets |-> None]
    /\ disconnected = [ws \in WebSockets |-> <<>>]
    /\ sent = [ws \in WebSockets |-> <<>>]
    /\ present = [ws \in WebSockets |-> {}]
    /\ instances = <<>>
    /\ singleton = 0
    /\ gpc = [t \in Threads |-> "idle"]
    /\ requested = [t \in Threads |-> 0]
    /\ handed = [t \in Threads |-> 0]

\* OcclusionAnalyzer.__init__ (via NICUImageAnalyzer.__init__ / get_analyzer):
\* runs once, whatever MediaPipe does
Construct ==
    /\ ~detector.constructed
    /\ detector' \in InitOutcomes
    /\ UNCHANGED <<pc, quality, occlusion, result, previous>>
    /\ UNCHANGED <<videoVars, otherVars>>

\* a call of ImageQualityAnalyzer.analyze on one of the images
QualityCall(samples) ==
    /\ pc = "idle"
    /\ \E img \in samples : quality' = QualityAnalyze(img)
    /\ pc' = "quality"
    /\ UNCHANGED <<occlusion, detector, result, previous>>
    /\ UNCHANGED <<videoVars, otherVars>>

\* a call of OcclusionAnalyzer.analyze on one of the images
OcclusionCall(samples) ==
    /\ pc = "idle"
    /\ detector.constructed
    /\ \E img \in samples : occlusion' = OcclusionAnalyze(detector, img)
    /\ pc' = "occlusion"
    /\ UNCHANGED <<quality, detector, result, previous>>
    /\ UNCHANGED <<videoVars, otherVars>>

\* a call of NICUImageAnalyzer.analyze_image on one of the images
AnalyzeImage(samples) ==
    /\ pc = "idle"
    /\ detector.constructed
    /\ \E img \in samples :
          /\ quality' = QualityAnalyze(img)
          /\ occlusion' = OcclusionAnalyze(detector, img)
    /\ result' = ResultDict(quality', occlusion')
    /\ pc' = "image"
    /\ UNCHANGED <<detector, previous>>
    /\ UNCHANGED <<videoVars, otherVars>>

\* the caller drops the result (views.analyze_image: Response(result))
Return ==
    /\ pc # "idle"
    /\ pc' = "idle"
    /\ quality' = Nothing
    /\ occlusion' = Nothing
    /\ result' = Nothing
    /\ UNCHANGED <<detector, previous>>
    /\ UNCHANGED <<videoVars, otherVars>>

\* the caller keeps the result (views.analyze_batch: results.append(result))
BatchAppend ==
    /\ pc = "image"
    /\ previous' = [score |-> result.overall.score,
                    usability |-> result.overall.usability]
    /\ pc' = "idle"
    /\ quality' = Nothing
    /\ occlusion' = Nothing
    /\ result' = Nothing
    /\ UNCHANGED detector
    /\ UNCHANGED <<videoVars, otherVars>>

\* views.analyze_video, lines 459-470, with get_processor and
\* process_video_bytes up to line 243: one request arrives and its bytes are
\* written to the temporary file, unless the write fails
AnalyzeVideo(requests, faults) ==
    /\ vpc = "idle"
    /\ \E req \in requests, fails \in faults :
          IF ~req.has_file
          THEN /\ response' = [error |-> ErrorNoFile]
               /\ vpc' = "done"
               /\ UNCHANGED <<detector, processor, temp_file>>
          ELSE /\ processor' = GetProcessor(processor, req.extraction_fps)
               /\ detector' \in (IF detector.constructed THEN {detector}
                                 ELSE InitOutcomes)
               /\ IF fails
                  THEN /\ response' = [raised |-> OSError]
                       /\ vpc' = "raised"
                       \* open() failed, or write() did and left the file
                       /\ \E left \in {NoTempFile, StagedUpload(req)} :
                             temp_file' = RemoveTempFile(left)
                  ELSE /\ temp_file' = StagedUpload(req)
                       /\ vpc' = "staged"
                       /\ UNCHANGED response
    /\ frame_number' = 0
    /\ extracted_count' = 0
    /\ frame_results' = <<>>
    /\ counts' = ZeroCounts
    /\ UNCHANGED <<cap, frame_interval>>
    /\ UNCHANGED <<imageVars, otherVars>>

\* process_video_bytes, lines 245-251, and _process_video_capture up to the
\* loop: OpenCV is handed the temporary file
OpenCapture(faults) ==
    /\ vpc = "staged"
    /\ \E fails \in faults :
          LET req == temp_file.video
          IN  IF fails
              THEN /\ response' = [raised |-> CvError]
                   /\ vpc' = "raised"
                   /\ temp_file' = RemoveTempFile(temp_file)
                   /\ UNCHANGED <<cap, frame_interval>>
              ELSE IF ~req.opened
              THEN /\ response' = [error |-> ErrorDecode]
                   /\ vpc' = "done"
                   /\ temp_file' = RemoveTempFile(temp_file)
                   /\ UNCHANGED <<cap, frame_interval>>
              ELSE /\ cap' = [opened |-> TRUE, fps |-> req.fps]
                   /\ IF IntervalRaises(req.fps, req.extraction_fps)
                      THEN /\ response' = [raised |-> ZeroDivisionError]
                           /\ vpc' = "raised"
                           /\ temp_file' = RemoveTempFile(temp_file)
                           /\ UNCHANGED frame_interval
                      ELSE /\ frame_interval' =
                                  FrameInterval(req.fps, req.extraction_fps)
                           /\ vpc' = "reading"
                           /\ UNCHANGED <<response, temp_file>>
    /\ UNCHANGED <<detector, processor, frame_number, extracted_count,
                   frame_results, counts>>
    /\ UNCHANGED <<imageVars, otherVars>>

\* one turn of the loop of _process_video_capture, lines 289-351: cap.read()
\* fails, or delivers a frame that is skipped or analysed
ReadFrame(samples, max_frames) ==
    /\ vpc = "reading"
    /\ \E ret \in (IF frame_number < max_frames THEN BOOLEAN ELSE NoFaults) :
          IF ~ret
          THEN /\ vpc' = "extracted"
               /\ UNCHANGED <<frame_number, extracted_count, frame_results,
                              counts, response, temp_file>>
          ELSE IF frame_interval = 0 \/ (AtInterval(frame_number, frame_interval)
                                         /\ cap.fps = 0)
          THEN /\ response' = [raised |-> ZeroDivisionError]
               /\ vpc' = "raised"
               /\ temp_file' = RemoveTempFile(temp_file)
               /\ UNCHANGED <<frame_number, extracted_count, frame_results,
                              counts>>
          ELSE IF AtInterval(frame_number, frame_interval)
          THEN /\ \E img \in samples :
                     LET analysis == ResultDict(QualityAnalyze(img),
                                                OcclusionAnalyze(detector, img))
                     IN  /\ frame_results' =
                                Append(frame_results,
                                       FrameResult(extracted_count, frame_number,
                                                   cap.fps, analysis))
                         /\ counts' = CountFrame(counts, extracted_count,
                                                 analysis)
               /\ extracted_count' = extracted_count + 1
               /\ frame_number' = frame_number + 1
               /\ UNCHANGED <<vpc, response, temp_file>>
          ELSE /\ frame_number' = frame_number + 1
               /\ UNCHANGED <<vpc, extracted_count, frame_results, counts,
                              response, temp_file>>
    /\ UNCHANGED <<detector, processor, cap, frame_interval>>
    /\ UNCHANGED <<imageVars, otherVars>>

\* the rest of _process_video_capture, lines 353-407, the finally clause of
\* process_video_bytes and the Response of views.analyze_video: smoothing,
\* recount, result
FinishVideo ==
    /\ vpc = "extracted"
    /\ LET pass == ApplyAdjacentFrameSmoothing(frame_results)
           smoothed_frames == pass.smoothed_results
           recounted == Recount(counts, smoothed_frames)
       IN  /\ frame_results' = pass.frame_results
           /\ counts' = recounted
           /\ response' = VideoResult(cap.fps, processor.extraction_fps,
                                      extracted_count, recounted,
                                      smoothed_frames)
    /\ cap' = [cap EXCEPT !.opened = FALSE]
    /\ temp_file' = RemoveTempFile(temp_file)
    /\ vpc' = "done"
    /\ UNCHANGED <<detector, processor, frame_interval, frame_number,
                   extracted_count>>
    /\ UNCHANGED <<imageVars, otherVars>>

\* the request is over: the response went out, or the exception did
VideoReturn ==
    /\ vpc \in {"done", "raised"}
    /\ vpc' = "idle"
    /\ cap' = NoCapture
    /\ frame_interval' = 0
    /\ frame_number' = 0
    /\ extracted_count' = 0
    /\ frame_results' = <<>>
    /\ counts' = ZeroCounts
    /\ response' = Nothing
    /\ UNCHANGED <<detector, processor, temp_file>>
    /\ UNCHANGED <<imageVars, otherVars>>

\* views.analyze_image, lines 307-313: an 'image' string is posted
AnalyzeImageView(inputs) ==
    /\ pc = "idle"
    /\ detector' \in (IF detector.constructed THEN {detector} ELSE InitOutcomes)
    /\ \E input \in inputs, empty_raises \in BOOLEAN :
          /\ base64_image' = input
          /\ result' = AnalyzeFromBase64(detector', input, empty_raises)
    /\ pc' = "base64"
    /\ UNCHANGED <<quality, occlusion, previous>>
    /\ UNCHANGED <<videoVars, batchVars, wsVars, singletonVars>>

\* the Response went out, or the exception did
ImageViewReturn ==
    /\ pc = "base64"
    /\ pc' = "idle"
    /\ result' = Nothing
    /\ base64_image' = Nothing
    /\ UNCHANGED <<quality, occlusion, detector, previous>>
    /\ UNCHANGED <<videoVars, batchVars, wsVars, singletonVars>>

\* views.analyze_batch, lines 339-360: a list of strings is posted
AnalyzeBatch(requests) ==
    /\ bpc = "idle"
    /\ detector' \in (IF detector.constructed THEN {detector} ELSE InitOutcomes)
    /\ \E list \in requests :
          /\ images' = list
          /\ IF list = <<>>
             THEN /\ batch_response' = [error |-> ErrorNoImages]
                  /\ bpc' = "done"
                  /\ UNCHANGED summary
             ELSE /\ summary' = ZeroSummary(Len(list))
                  /\ bpc' = "loop"
                  /\ UNCHANGED batch_response
    /\ results' = <<>>
    /\ UNCHANGED <<imageVars, videoVars, base64_image, wsVars, singletonVars>>

\* one turn of its loop, lines 362-386, and after the last one the Response,
\* lines 388-391
BatchStep ==
    /\ bpc = "loop"
    /\ \E empty_raises \in BOOLEAN :
          LET i == Len(results)
              r == AnalyzeFromBase64(detector, images[i + 1], empty_raises)
          IN  IF "raised" \in DOMAIN r
              THEN /\ batch_response' = r
                   /\ bpc' = "raised"
                   /\ UNCHANGED <<results, summary>>
              ELSE /\ results' = Append(results, r @@ [index |-> i])
                   /\ summary' = UpdateSummary(summary, r)
                   /\ IF i + 1 = Len(images)
                      THEN /\ batch_response' = [summary |-> summary',
                                                 results |-> results']
                           /\ bpc' = "done"
                      ELSE UNCHANGED <<bpc, batch_response>>
    /\ UNCHANGED <<detector, images>>
    /\ UNCHANGED <<imageVars, videoVars, base64_image, wsVars, singletonVars>>

\* the request is over
BatchReturn ==
    /\ bpc \in {"done", "raised"}
    /\ bpc' = "idle"
    /\ images' = <<>>
    /\ results' = <<>>
    /\ summary' = Nothing
    /\ batch_response' = Nothing
    /\ UNCHANGED detector
    /\ UNCHANGED <<imageVars, videoVars, base64_image, wsVars, singletonVars>>

\* of the connections a suspended broadcast has seen in the list ever since
\* it started, those that are still in it
StillPresent(list) ==
    [ws \in WebSockets |->
        IF handler[ws] = "sending" THEN present[ws] \cap Range(list)
        ELSE present[ws]]

\* monitor_patient / dashboard_feed up to receive_text, with
\* ConnectionManager.connect, lines 20-23
Connect(ws) ==
    /\ handler[ws] = "new"
    /\ active_connections' = Append(active_connections, ws)
    /\ handler' = [handler EXCEPT ![ws] = "receiving"]
    /\ UNCHANGED <<cursor, connection, disconnected, sent, present>>
    /\ UNCHANGED <<imageVars, detector, videoVars, batchVars, base64_image,
                   singletonVars>>

\* receive_text raises WebSocketDisconnect, lines 72-73 and 86-87, and
\* ConnectionManager.disconnect, lines 25-27
ClientDisconnect(ws) ==
    /\ handler[ws] = "receiving"
    /\ LET removal == ListRemove(active_connections, ws)
       IN  /\ active_connections' = removal.list
           /\ handler' = [handler EXCEPT
                             ![ws] = IF removal.raised THEN ValueError
                                     ELSE "closed"]
           /\ present' = StillPresent(removal.list)
    /\ UNCHANGED <<cursor, connection, disconnected, sent>>
    /\ UNCHANGED <<imageVars, detector, videoVars, batchVars, base64_image,
                   singletonVars>>

\* a send of the endpoint to its own client fails, lines 53, 58 and 85: the
\* exception is not a WebSocketDisconnect raised under the try, disconnect is
\* not called
HandlerAborts(ws) ==
    /\ handler[ws] = "receiving"
    /\ handler' = [handler EXCEPT ![ws] = "aborted"]
    /\ UNCHANGED <<active_connections, cursor, connection, disconnected, sent,
                   present>>
    /\ UNCHANGED <<imageVars, detector, videoVars, batchVars, base64_image,
                   singletonVars>>

\* monitor_patient receives a frame, lines 54-70, and calls broadcast, lines
\* 29-33: up to the first send_json awaited
Broadcast(ws) ==
    /\ ws \in Monitors
    /\ handler[ws] = "receiving"
    /\ disconnected' = [disconnected EXCEPT ![ws] = <<>>]
    /\ sent' = [sent EXCEPT ![ws] = <<>>]
    /\ present' = [present EXCEPT ![ws] = Range(active_connections)]
    /\ IF active_connections = <<>>
       THEN /\ handler' = [handler EXCEPT ![ws] = "returning"]
            /\ UNCHANGED <<cursor, connection>>
       ELSE /\ cursor' = [cursor EXCEPT ![ws] = 1]
            /\ connection' = [connection EXCEPT ![ws] = active_connections[1]]
            /\ handler' = [handler EXCEPT ![ws] = "sending"]
    /\ UNCHANGED active_connections
    /\ UNCHANGED <<imageVars, detector, videoVars, batchVars, base64_image,
                   singletonVars>>

\* the send_json awaited returns or raises, lines 32-35; the loop goes on to
\* the next connection of the list, or ends and the failed connections are
\* removed, lines 36-37
SendReturns(ws) ==
    /\ handler[ws] = "sending"
    /\ \E ok \in BOOLEAN :
          /\ sent' = [sent EXCEPT
                         ![ws] = IF ok THEN Append(@, connection[ws]) ELSE @]
          /\ disconnected' = [disconnected EXCEPT
                                 ![ws] = IF ok THEN @
                                         ELSE Append(@, connection[ws])]
    /\ IF cursor[ws] < Len(active_connections)
       THEN /\ connection' = [connection EXCEPT
                                 ![ws] = active_connections[cursor[ws] + 1]]
            /\ cursor' = [cursor EXCEPT ![ws] = @ + 1]
            /\ UNCHANGED <<active_connections, handler, present>>
       ELSE LET removal == RemoveDisconnected(active_connections,
                                              disconnected'[ws], 1)
            IN  /\ active_connections' = removal.list
                /\ handler' = [handler EXCEPT
                                  ![ws] = IF removal.raised THEN "raising"
                                          ELSE "returning"]
                /\ present' = StillPresent(removal.list)
                /\ UNCHANGED <<cursor, connection>>
    /\ UNCHANGED <<imageVars, detector, videoVars, batchVars, base64_image,
                   singletonVars>>

\* broadcast is over and its locals are gone: monitor_patient is back in
\* receive_text, line 49, or ended by the ValueError of line 37
BroadcastReturns(ws) ==
    /\ handler[ws] \in {"returning", "raising"}
    /\ handler' = [handler EXCEPT
                      ![ws] = IF @ = "raising" THEN ValueError ELSE "receiving"]
    /\ cursor' = [cursor EXCEPT ![ws] = 0]
    /\ connection' = [connection EXCEPT ![ws] = None]
    /\ disconnected' = [disconnected EXCEPT ![ws] = <<>>]
    /\ sent' = [sent EXCEPT ![ws] = <<>>]
    /\ present' = [present EXCEPT ![ws] = {}]
    /\ UNCHANGED active_connections
    /\ UNCHANGED <<imageVars, detector, videoVars, batchVars, base64_image,
                   singletonVars>>

\* views.analyze_video, line 467: a request thread calls get_processor
GetProcessorCall(t, rates) ==
    /\ gpc[t] = "idle"
    /\ Len(instances) < MaxInstances
    /\ \E r \in rates : requested' = [requested EXCEPT ![t] = r]
    /\ gpc' = [gpc EXCEPT ![t] = "test"]
    /\ handed' = [handed EXCEPT ![t] = 0]
    /\ UNCHANGED <<instances, singleton>>
    /\ UNCHANGED <<imageVars, detector, videoVars, batchVars, base64_image,
                   wsVars>>

\* get_processor, line 438: the test of the global
GetProcessorTest(t) ==
    /\ gpc[t] = "test"
    /\ gpc' = [gpc EXCEPT
                  ![t] = IF \/ singleton = 0
                            \/ instances[singleton].extraction_fps # requested[t]
                         THEN "make" ELSE "return"]
    /\ UNCHANGED <<instances, singleton, requested, handed>>
    /\ UNCHANGED <<imageVars, detector, videoVars, batchVars, base64_image,
                   wsVars>>

\* line 439, with VideoProcessor.__init__, line 78: a new object is made and
\* stored in the global
GetProcessorMake(t) ==
    /\ gpc[t] = "make"
    /\ instances' = Append(instances, [extraction_fps |-> requested[t]])
    /\ singleton' = Len(instances) + 1
    /\ gpc' = [gpc EXCEPT ![t] = "return"]
    /\ UNCHANGED <<requested, handed>>
    /\ UNCHANGED <<imageVars, detector, videoVars, batchVars, base64_image,
                   wsVars>>

\* line 440: the global is read again and returned
GetProcessorReturn(t) ==
    /\ gpc[t] = "return"
    /\ handed' = [handed EXCEPT ![t] = singleton]
    /\ gpc' = [gpc EXCEPT ![t] = "handed"]
    /\ UNCHANGED <<instances, singleton, requested>>
    /\ UNCHANGED <<imageVars, detector, videoVars, batchVars, base64_image,
                   wsVars>>

\* views.analyze_video, lines 468-475: the request is served with the
\* processor it was handed, and the thread takes the next request
RequestServed(t) ==
    /\ gpc[t] = "handed"
    /\ gpc' = [gpc EXCEPT ![t] = "idle"]
    /\ UNCHANGED <<instances, singleton, requested, handed>>
    /\ UNCHANGED <<imageVars, detector, videoVars, batchVars, base64_image,
                   wsVars>>

NextQuality == QualityCall(QualityImages) \/ Return
SpecQuality == Init /\ [][NextQuality]_vars

NextOcclusion == Construct \/ OcclusionCall(FaceImages) \/ Return
SpecOcclusion == Init /\ [][NextOcclusion]_vars

NextBatch == Construct \/ AnalyzeImage(BatchFrames) \/ BatchAppend
SpecBatch == Init /\ [][NextBatch]_vars

Next == Construct \/ AnalyzeImage(Frames) \/ Return
Spec == Init /\ [][Next]_vars

\* one base64 string at a time
NextBase64 == AnalyzeImageView(Base64Inputs) \/ ImageViewReturn
SpecBase64 == Init /\ [][NextBase64]_vars

\* batches of base64 strings
NextBatchView == AnalyzeBatch(BatchRequests) \/ BatchStep \/ BatchReturn
SpecBatchView == Init /\ [][NextBatchView]_vars

\* the WebSocket endpoints
NextWs ==
    \E ws \in WebSockets :
        \/ Connect(ws)
        \/ Broadcast(ws)
        \/ SendReturns(ws)
        \/ BroadcastReturns(ws)
        \/ ClientDisconnect(ws)
        \/ HandlerAborts(ws)
SpecWs == Init /\ [][NextWs]_vars

\* get_processor called from several request threads
NextSingleton ==
    \E t \in Threads :
        \/ GetProcessorCall(t, ThreadRates)
        \/ GetProcessorTest(t)
        \/ GetProcessorMake(t)
        \/ GetProcessorReturn(t)
        \/ RequestServed(t)
SpecSingleton == Init /\ [][NextSingleton]_vars

\* frame extraction: many rates, few images
NextExtraction ==
    \/ AnalyzeVideo(ExtractionRequests, NoFaults)
    \/ OpenCapture(NoFaults)
    \/ ReadFrame(ExtractionFrames, MaxSourceFrames)
    \/ FinishVideo
    \/ VideoReturn
SpecExtraction == Init /\ [][NextExtraction]_vars

\* adjacent frame smoothing and the summary: one rate, many images
NextVideo ==
    \/ AnalyzeVideo(SmoothingRequests, NoFaults)
    \/ OpenCapture(NoFaults)
    \/ ReadFrame(SmoothingFrames, MaxVideoFrames)
    \/ FinishVideo
    \/ VideoReturn
SpecVideo == Init /\ [][NextVideo]_vars

\* the summary and the recommendation: one rate, few images, longer videos
NextSummary ==
    \/ AnalyzeVideo(SummaryRequests, NoFaults)
    \/ OpenCapture(NoFaults)
    \/ ReadFrame(SummaryFrames, MaxSummaryFrames)
    \/ FinishVideo
    \/ VideoReturn
SpecSummary == Init /\ [][NextSummary]_vars

\* the temporary file: uploads of every kind, with I/O failures
NextStaging ==
    \/ AnalyzeVideo(StagingRequests, IOFaults)
    \/ OpenCapture(IOFaults)
    \/ ReadFrame(ExtractionFrames, MaxStagedFrames)
    \/ FinishVideo
    \/ VideoReturn
SpecStaging == Init /\ [][NextStaging]_vars

(***************************************************************************)
(* Claims about ImageQualityAnalyzer.analyze (SpecQuality).                *)
(***************************************************************************)

\* C1: whatever the mean, std-dev, sharpness and size of the image, the
\* overall_score of the returned QualityMetrics lies in [0, 100] and the
\* usability is the step function of that score: usable from 70, marginal
\* from 40 up to 70, unusable below 40.
C1_ScoreBoundedUsabilityStep ==
    pc = "quality" =>
        /\ 0 <= quality.overall_score
        /\ quality.overall_score <= 100 * ScoreUnit
        /\ quality.usability \in {"usable", "marginal", "unusable"}
        /\ quality.usability = "usable" <=> quality.overall_score >= 70 * ScoreUnit
        /\ quality.usability = "marginal" <=>
              /\ quality.overall_score >= 40 * ScoreUnit
              /\ quality.overall_score < 70 * ScoreUnit
        /\ quality.usability = "unusable" <=> quality.overall_score < 40 * ScoreUnit

\* a score of exactly 40, which is marginal
C1_Witness ==
    /\ pc = "quality"
    /\ quality.overall_score = 40 * ScoreUnit
    /\ quality.usability = "marginal"

\* section 4.1 of the specification, on the measurements the metrics report;
\* the penalties count 1/ScoreUnit points
Sec41Dark(q) == q.mean_brightness <= 25
Sec41Bright(q) == q.mean_brightness >= 240
Sec41Blurry(q) == q.laplacian_variance < 100
Sec41LowContrast(q) == q.brightness_std < 30
Sec41Adequate(q) == q.width >= 64 /\ q.height >= 64
Sec41Penalties(q) ==
    (IF Sec41Dark(q) THEN Min(40 * ScoreUnit, (25 - q.mean_brightness) * 2 * ScoreUnit)
     ELSE IF Sec41Bright(q)
          THEN Min(30 * ScoreUnit, ((q.mean_brightness - 240) * ScoreUnit) \div 2)
          ELSE Min(10 * ScoreUnit, (Abs(q.mean_brightness - 128) * ScoreUnit) \div 20))
    + (IF Sec41Blurry(q)
       THEN Min(30 * ScoreUnit, ((100 - q.laplacian_variance) * ScoreUnit) \div 5)
       ELSE 0)
    + (IF Sec41LowContrast(q)
       THEN Min(20 * ScoreUnit, (30 - q.brightness_std) * ScoreUnit) ELSE 0)
    + (IF Sec41Adequate(q) THEN 0 ELSE 20 * ScoreUnit)

\* C2: the flags are the threshold tests of section 4.1 (dark <= 25, bright >=
\* 240, blurry < 100, low contrast < 30, adequate iff min(width, height) >= 64)
\* and the score is 100 minus the section 4.1 penalties, clamped to [0, 100];
\* mean 10, sharpness 0, std-dev 0 at adequate resolution scores 30, unusable.
C2_FlagsAndScoreFormula ==
    pc = "quality" =>
        /\ quality.is_too_dark <=> Sec41Dark(quality)
        /\ quality.is_too_bright <=> Sec41Bright(quality)
        /\ quality.is_blurry <=> Sec41Blurry(quality)
        /\ quality.is_low_contrast <=> Sec41LowContrast(quality)
        /\ quality.resolution_adequate <=> Sec41Adequate(quality)
        /\ quality.overall_score =
              Max(0, Min(100 * ScoreUnit, 100 * ScoreUnit - Sec41Penalties(quality)))
        /\ (/\ quality.mean_brightness = 10
            /\ quality.laplacian_variance = 0
            /\ quality.brightness_std = 0
            /\ quality.resolution_adequate)
           => /\ quality.overall_score = 30 * ScoreUnit
              /\ quality.usability = "unusable"

\* scenario A has been analysed
C2_Witness ==
    /\ pc = "quality"
    /\ quality.mean_brightness = 10
    /\ quality.laplacian_variance = 0
    /\ quality.brightness_std = 0
    /\ quality.resolution_adequate
    /\ quality.is_too_dark /\ quality.is_blurry /\ quality.is_low_contrast
    /\ quality.overall_score = 30 * ScoreUnit

(***************************************************************************)
(* Claims about OcclusionAnalyzer (SpecOcclusion).  occlusion.primary is   *)
(* the verdict of the primary detector before the Haar pass: no detection  *)
(* is num_faces = 0, otherwise confidence is the score c of the detection. *)
(***************************************************************************)

\* section 4.2: the provisional status of a primary confidence
Sec42Status(p) ==
    IF p.num_faces > 0 /\ p.confidence >= 50 THEN "detected"
    ELSE IF p.num_faces > 0 /\ p.confidence >= 20 THEN "uncertain"
    ELSE "not_detected"

\* C4: the fallback never downgrades a primary "detected" (c >= 0.5): the fused
\* verdict is then "detected" with the primary's confidence and bbox; and it
\* never claims "detected" on its own: when the primary status is
\* "not_detected" (no detection, or c < 0.2) the fused status is not "detected".
C4_FallbackNeverOverrides ==
    pc = "occlusion" =>
        /\ Sec42Status(occlusion.primary) = "detected" =>
              /\ occlusion.face_detection_status = "detected"
              /\ occlusion.face_confidence = occlusion.primary.confidence
              /\ occlusion.face_bbox = occlusion.primary.bbox
              /\ occlusion.face_bbox = "mediapipe_bbox"
        /\ Sec42Status(occlusion.primary) = "not_detected" =>
              occlusion.face_detection_status # "detected"

\* a primary detection below 0.2 with a Haar face: fused to uncertain
C4_Witness ==
    /\ pc = "occlusion"
    /\ occlusion.primary.num_faces > 0
    /\ occlusion.primary.confidence < 20
    /\ occlusion.haar_detected
    /\ occlusion.face_detection_status = "uncertain"

\* C5: the ordered fusion policy.  (1) primary not_detected and a Haar face:
\* uncertain, confidence 0.35, the Haar bbox; (2) else primary uncertain and a
\* Haar face: confidence min(0.6, c + 0.15), detected iff that is >= 0.5; (3)
\* otherwise the primary's status, confidence and bbox.  Nothing from the
\* primary and a Haar face: uncertain, 0.35, occlusion_score 50, level
\* uncertain, face_usable.
C5_FusionPolicy ==
    pc = "occlusion" =>
        LET p == occlusion.primary
            st == Sec42Status(p)
            boosted == Min(60, p.confidence + 15)
        IN  /\ p.status = st
            /\ IF st = "not_detected" /\ occlusion.haar_detected
               THEN /\ occlusion.face_detection_status = "uncertain"
                    /\ occlusion.face_confidence = 35
                    /\ occlusion.face_bbox = "haar_bbox"
               ELSE IF st = "uncertain" /\ occlusion.haar_detected
               THEN /\ occlusion.face_confidence = boosted
                    /\ occlusion.face_detection_status =
                          IF boosted >= 50 THEN "detected" ELSE "uncertain"
                    /\ occlusion.face_bbox = p.bbox
               ELSE /\ occlusion.face_detection_status = st
                    /\ occlusion.face_confidence = p.confidence
                    /\ occlusion.face_bbox = p.bbox
            /\ (p.num_faces = 0 /\ occlusion.haar_detected) =>
                  /\ occlusion.face_detection_status = "uncertain"
                  /\ occlusion.face_confidence = 35
                  /\ occlusion.occlusion_score = 50 * ScoreUnit
                  /\ occlusion.occlusion_level = "uncertain"
                  /\ occlusion.face_usable

\* an uncertain primary at 0.49 corroborated by Haar: the cap of 0.6 applies
C5_Witness ==
    /\ pc = "occlusion"
    /\ occlusion.primary.status = "uncertain"
    /\ occlusion.primary.confidence = 49
    /\ occlusion.haar_detected
    /\ occlusion.face_confidence = 60
    /\ occlusion.face_detection_status = "detected"

\* C6: (occlusion_score, level) is the first matching row of: not_detected ->
\* (100, severe); uncertain -> (50, uncertain); confidence < 0.6 -> (40,
\* partial); r < 0.7 -> (30, partial); otherwise (max(0, (1 - confidence) * 20),
\* none).  face_usable is false iff level = severe iff status = not_detected.
\* Confidence 0.8 with r = 0.9 gives (4, none, usable).
C6_OcclusionTable ==
    pc = "occlusion" =>
        LET st == occlusion.face_detection_status
            c == occlusion.face_confidence
            \* r < 0.7, r = landmarks_visible / landmarks_expected
            lowRatio == 10 * occlusion.landmark_visibility_ratio < 7 * RatioUnit
            row == <<occlusion.occlusion_score, occlusion.occlusion_level>>
        IN  /\ occlusion.landmark_visibility_ratio * occlusion.landmarks_expected
                  = occlusion.landmarks_visible * RatioUnit
            /\ row = IF st = "not_detected" THEN <<100 * ScoreUnit, "severe">>
                     ELSE IF st = "uncertain" THEN <<50 * ScoreUnit, "uncertain">>
                     ELSE IF c < 60 THEN <<40 * ScoreUnit, "partial">>
                     ELSE IF lowRatio THEN <<30 * ScoreUnit, "partial">>
                     ELSE <<Max(0, ((100 - c) * 20 * ScoreUnit) \div 100), "none">>
            /\ ~occlusion.face_usable <=> occlusion.occlusion_level = "severe"
            /\ occlusion.occlusion_level = "severe" <=> st = "not_detected"
            /\ (c = 80 /\ st = "detected" /\ ~lowRatio) =>
                  /\ occlusion.occlusion_score = 4 * ScoreUnit
                  /\ occlusion.occlusion_level = "none"
                  /\ occlusion.face_usable

\* scenario B: confidence 0.8, 421 of 468 landmarks (r = 0.900 to 3 places)
C6_Witness ==
    /\ pc = "occlusion"
    /\ occlusion.face_confidence = 80
    /\ occlusion.landmarks_visible = 421
    /\ occlusion.occlusion_score = 4 * ScoreUnit
    /\ occlusion.occlusion_level = "none"
    /\ occlusion.face_usable

\* C7: without the primary detector the analyzer is still constructed, and
\* every analysis derives the status from the fallback alone: uncertain with
\* confidence 0.35 if Haar found a face, not_detected otherwise; never detected.
C7_FallbackOnly ==
    (pc = "occlusion" /\ ~detector.mp_face_detection) =>
        /\ detector.constructed
        /\ occlusion.face_detection_status # "detected"
        /\ IF occlusion.haar_detected
           THEN /\ occlusion.face_detection_status = "uncertain"
                /\ occlusion.face_confidence = 35
           ELSE /\ occlusion.face_detection_status = "not_detected"
                /\ occlusion.face_confidence = 0

\* fallback-only analysis of an image with a Haar face
C7_Witness ==
    /\ pc = "occlusion"
    /\ detector.constructed
    /\ ~detector.mp_face_detection
    /\ occlusion.haar_detected
    /\ occlusion.face_detection_status = "uncertain"
    /\ occlusion.face_confidence = 35

(***************************************************************************)
(* Claims about NICUImageAnalyzer.analyze_image (Spec).                    *)
(***************************************************************************)

\* C3: an image whose mean grey level is 25 or lower is unusable: the
\* QualityMetrics of ImageQualityAnalyzer.analyze say "unusable", and so does
\* the overall verdict of analyze_image.
C3_DarkImageUnusable ==
    (pc = "image" /\ quality.mean_brightness <= 25) =>
        /\ quality.usability = "unusable"
        /\ result.overall.usability = "unusable"

\* C8: the overall verdict is the first matching row of section 4.4 over the
\* QualityMetrics Q and the OcclusionMetrics O of the call: Q unusable or O
\* not_detected -> (unusable, min(Q.score, 35)); O uncertain -> (marginal,
\* 0.7 Q.score + 0.3 (100 - O.occlusion_score)); Q marginal or O partial ->
\* (marginal, (Q.score + 100 - O.occlusion_score) / 2); otherwise (usable, the
\* same mean).  The score lies in [0, 100], also after the rounding to one
\* decimal of the returned dict.  Scores here count 1/OverallUnit points.
C8_CombinedVerdict ==
    pc = "image" =>
        LET Q == quality.overall_score * (OverallUnit \div ScoreUnit)
            V == (100 * ScoreUnit - occlusion.occlusion_score)
                 * (OverallUnit \div ScoreUnit)
            st == occlusion.face_detection_status
            row == <<result.overall.usability, result.overall_score>>
        IN  /\ row = IF quality.usability = "unusable" \/ st = "not_detected"
                     THEN <<"unusable", Min(Q, 35 * OverallUnit)>>
                     ELSE IF st = "uncertain"
                     THEN <<"marginal", (7 * Q + 3 * V) \div 10>>
                     ELSE IF quality.usability = "marginal"
                             \/ occlusion.occlusion_level = "partial"
                     THEN <<"marginal", (Q + V) \div 2>>
                     ELSE <<"usable", (Q + V) \div 2>>
            \* nothing is lost by the integer divisions above
            /\ (7 * Q + 3 * V) % 10 = 0 /\ (Q + V) % 2 = 0
            /\ 0 <= result.overall_score
            /\ result.overall_score <= 100 * OverallUnit
            \* the returned score: tenths of a point
            /\ 0 <= result.overall.score /\ result.overall.score <= 1000
            /\ 2 * Abs(result.overall.score * (OverallUnit \div 10)
                       - result.overall_score) <= OverallUnit \div 10

\* the uncertain row on a perfect image: 0.7 * 100 + 0.3 * 50 = 85, marginal
C8_Witness ==
    /\ pc = "image"
    /\ quality.overall_score = 100 * ScoreUnit
    /\ occlusion.face_detection_status = "uncertain"
    /\ result.overall.usability = "marginal"
    /\ result.overall_score = 85 * OverallUnit
    /\ result.overall.score = 850

(***************************************************************************)
(* Claims about successive analyze_image results (SpecBatch).  previous is *)
(* the overall score and usability of the result kept before this one.     *)
(***************************************************************************)

\* C9 as stated: two analyze_image results with the same overall score have
\* the same overall usability.
C9_SameScoreSameUsability ==
    (pc = "image" /\ previous.usability # None
                  /\ result.overall.score = previous.score) =>
        result.overall.usability = previous.usability

\* C9 as amended: two analyze_image results with the same overall score are
\* both unusable or both not unusable; the score does not tell marginal from
\* usable, which is decided by the rows of section 4.4.
C9_SameScoreSameUnusable ==
    (pc = "image" /\ previous.usability # None
                  /\ result.overall.score = previous.score) =>
        (result.overall.usability = "unusable" <=> previous.usability = "unusable")

\* an overall score of 85.0 twice: once usable, then marginal
C9_Witness ==
    /\ pc = "image"
    /\ result.overall.score = previous.score
    /\ result.overall.score = 850
    /\ previous.usability = "usable"
    /\ result.overall.usability = "marginal"

(***************************************************************************)
(* Claims about NICUImageAnalyzer.analyze_image (Spec), continued.         *)
(***************************************************************************)

\* C10: the merged recommendations are at most 5: the first five of: the
\* critical-dark item (iff the image is too dark), the occlusion item (critical
\* no-face iff not_detected, the uncertain note iff uncertain), the quality
\* recommendations in order, the occlusion recommendations in order.  The
\* merged issues are the quality issues followed by the occlusion causes.
C10_MergedRecommendations ==
    pc = "image" =>
        LET recs == result.overall.recommendations
            st == occlusion.face_detection_status
            dark == IF quality.is_too_dark THEN 1 ELSE 0
            occ == IF st \in {"not_detected", "uncertain"} THEN 1 ELSE 0
            nq == Len(quality.recommendations)
            no == Len(occlusion.recommendations)
            \* the i-th item of the ordered sequence
            Item(i) ==
                IF i <= dark THEN "CRITICAL: Image too dark for reliable analysis"
                ELSE IF i <= dark + occ
                THEN (IF st = "not_detected"
                      THEN "CRITICAL: No face detected - check for occlusion"
                      ELSE "Face detection uncertain - may need manual review")
                ELSE IF i <= dark + occ + nq
                THEN quality.recommendations[i - dark - occ]
                ELSE occlusion.recommendations[i - dark - occ - nq]
        IN  /\ Len(recs) <= 5
            /\ Len(recs) = Min(5, dark + occ + nq + no)
            /\ \A i \in 1 .. Len(recs) : recs[i] = Item(i)
            /\ Len(result.overall.issues)
                  = Len(quality.issues) + Len(occlusion.likely_causes)
            /\ \A i \in 1 .. Len(quality.issues) :
                  result.overall.issues[i] = quality.issues[i]
            /\ \A i \in 1 .. Len(occlusion.likely_causes) :
                  result.overall.issues[Len(quality.issues) + i]
                      = occlusion.likely_causes[i]

\* a dark, blurred, flat, small image without a face: ten items, five kept
C10_Witness ==
    /\ pc = "image"
    /\ quality.is_too_dark
    /\ occlusion.face_detection_status = "not_detected"
    /\ Len(quality.recommendations) + Len(occlusion.recommendations) = 8
    /\ Len(result.overall.recommendations) = 5
    /\ result.overall.recommendations[2]
          = "CRITICAL: No face detected - check for occlusion"
    /\ Len(result.overall.issues) = 7

(***************************************************************************)
(* Claims about frame extraction, VideoProcessor._process_video_capture    *)
(* (SpecExtraction).                                                       *)
(***************************************************************************)

\* the frames of the request in progress: those returned, once it is answered
VideoFrameRecords ==
    IF vpc = "done" /\ "frames" \in DOMAIN response THEN response.frames
    ELSE frame_results

\* C11: for a source fps f > 0 and a target rate r > 0 the sampling interval
\* is floor(f / r) if r < f and 1 otherwise, and is at least 1.  With N frames
\* read before the first failed read, ceil(N / interval) frames are extracted,
\* the k-th has frame_number k (from 0) and original_frame k * interval, and
\* the answer holds exactly these; 30 fps at 1 fps gives interval 30.
C11_IntervalAndExtractedFrames ==
    (/\ vpc \in {"reading", "extracted", "done"}
     /\ cap.fps > 0
     /\ processor.extraction_fps > 0
     /\ "error" \notin DOMAIN response) =>
        LET f == cap.fps
            r == processor.extraction_fps
            interval == IF r < f THEN f \div r ELSE 1
            frames == VideoFrameRecords
        IN  /\ interval >= 1
            /\ frame_interval = interval
            /\ (f = 30 * RateUnit /\ r = RateUnit) => frame_interval = 30
            /\ Len(frames) = (frame_number + interval - 1) \div interval
            /\ extracted_count = Len(frames)
            /\ \A k \in 1 .. Len(frames) :
                  /\ frames[k].frame_number = k - 1
                  /\ frames[k].original_frame = (k - 1) * interval
            /\ vpc = "done" =>
                  response.total_frames_extracted = Len(frames)

\* 3 fps sampled at 1 fps, 8 frames read: frames 0, 3 and 6 are returned
C11_Witness ==
    /\ vpc = "done"
    /\ frame_interval = 3
    /\ frame_number = 8
    /\ "frames" \in DOMAIN response
    /\ Len(response.frames) = 3
    /\ response.frames[3].frame_number = 2
    /\ response.frames[3].original_frame = 6

\* whether the request in progress has been answered with frames
HasVideoResult == vpc = "done" /\ "frames" \in DOMAIN response

\* C12 as stated: the timestamp_seconds of successive extracted frames are
\* strictly increasing, for every source fps and every extraction rate, and
\* each equals original_frame / source_fps.
C12_TimestampsExactAndIncreasing ==
    HasVideoResult =>
        LET frames == response.frames
        IN  /\ \A k \in 1 .. Len(frames) - 1 :
                  frames[k].timestamp_seconds < frames[k + 1].timestamp_seconds
            /\ \A k \in 1 .. Len(frames) :
                  frames[k].timestamp_seconds * cap.fps
                      = frames[k].original_frame * RateUnit * 100

\* C12, amended: each timestamp_seconds is original_frame / source_fps
\* rounded to two decimals (at most half a hundredth away from it); the
\* timestamps of successive frames never decrease, and they strictly increase
\* whenever the sampling interval spans at least a hundredth of a second.
C12_TimestampsRoundedAndMonotone ==
    HasVideoResult =>
        LET frames == response.frames
            f == cap.fps
        IN  /\ \A k \in 1 .. Len(frames) :
                  2 * Abs(frames[k].timestamp_seconds * f
                          - frames[k].original_frame * RateUnit * 100) <= f
            /\ \A k \in 1 .. Len(frames) - 1 :
                  /\ frames[k].timestamp_seconds
                        <= frames[k + 1].timestamp_seconds
                  /\ Abs(frame_interval) * RateUnit * 100 >= f =>
                        frames[k].timestamp_seconds
                            < frames[k + 1].timestamp_seconds

\* a 240 fps source sampled at every frame: frames 2 and 3 both report 0.01 s
C12_Witness ==
    /\ HasVideoResult
    /\ cap.fps = 240 * RateUnit
    /\ Len(response.frames) >= 4
    /\ response.frames[3].original_frame = 2
    /\ response.frames[3].timestamp_seconds = 1
    /\ response.frames[4].original_frame = 3
    /\ response.frames[4].timestamp_seconds = 1

\* C13: a video analysis asked for an extraction rate <= 0 extracts no frame
\* and the caller gets an explicit {"error": ...}, never frame results and
\* never an unhandled failure.
C13_NonPositiveRateIsAnError ==
    (/\ vpc \in {"reading", "extracted", "done", "raised"}
     /\ cap.opened \/ HasVideoResult \/ vpc = "raised"
     /\ processor.extraction_fps <= 0) =>
        /\ vpc # "raised"
        /\ Len(frame_results) = 0
        /\ vpc = "done" => "error" \in DOMAIN response

(***************************************************************************)
(* Claims about adjacent frame smoothing,                                  *)
(* VideoProcessor._apply_adjacent_frame_smoothing (SpecVideo).  They are   *)
(* stated on the step that runs the pass: frame_results is the sequence    *)
(* handed to it, response'.frames the sequence it returns.                 *)
(***************************************************************************)
SmoothingStep == vpc = "extracted" /\ vpc' = "done"

\* section 4.6 of the specification, on a sequence s of frame records
Sec46Evidence(s, i) ==
    {j \in {i - 1, i + 1} :
        /\ 1 <= j
        /\ j <= Len(s)
        /\ s[j].face_detection_status \in {"detected", "uncertain"}}
Sec46Boostable(s, i) ==
    /\ Len(s) >= 3
    /\ s[i].face_detection_status \in {"not_detected", "uncertain"}
    /\ Sec46Evidence(s, i) # {}
\* the blend weight, in tenths
Sec46Weight(s, i) ==
    IF s[i].face_detection_status = "uncertain" THEN 3
    ELSE IF Cardinality(Sec46Evidence(s, i)) = 1 THEN 4
    ELSE IF \E j \in Sec46Evidence(s, i) : s[j].face_detection_status = "detected"
         THEN 6
         ELSE 5
\* old * (1 - w) + average(neighbour scores) * w, in 1/200 points, for scores
\* in tenths
Sec46Blend(s, i) ==
    LET nb == Sec46Evidence(s, i)
        w == Sec46Weight(s, i)
        sum == IF i - 1 \in nb THEN s[i - 1].quality_score ELSE 0
        sum2 == IF i + 1 \in nb THEN s[i + 1].quality_score ELSE 0
    IN  2 * s[i].quality_score * (10 - w)
        + (2 * w * (sum + sum2)) \div Cardinality(nb)
Sec46Bucket(blend) ==
    IF blend >= 70 * 200 THEN "usable"
    ELSE IF blend >= 45 * 200 THEN "marginal"
    ELSE "unusable"
UsabilityRank(u) == IF u = "usable" THEN 2 ELSE IF u = "marginal" THEN 1 ELSE 0
AuditFields == {"adjacent_boost", "original_score", "original_usability"}

\* C14: the pass returns its input unchanged when there are fewer than 3
\* frames; with 3 or more, every 'detected' frame, and every not_detected or
\* uncertain frame none of whose existing neighbours is detected or uncertain,
\* comes out with all fields equal and without the audit fields.
C14_UntouchedFrames ==
    [][SmoothingStep =>
        LET in == frame_results
            out == response'.frames
        IN  /\ Len(in) < 3 => out = in
            /\ Len(out) = Len(in)
            /\ \A i \in 1 .. Len(in) :
                  (\/ in[i].face_detection_status = "detected"
                   \/ /\ in[i].face_detection_status
                            \in {"not_detected", "uncertain"}
                      /\ Sec46Evidence(in, i) = {}) =>
                      /\ out[i] = in[i]
                      /\ DOMAIN out[i] \cap AuditFields = {}]_vars

\* three frames returned: a faceless frame whose only neighbour shows no
\* face, a faceless frame that is boosted, and a 'detected' frame beside it
C14_Witness ==
    /\ HasVideoResult
    /\ Len(response.frames) = 3
    /\ response.frames[1].face_detection_status = "not_detected"
    /\ response.frames[2].face_detection_status = "not_detected"
    /\ response.frames[3].face_detection_status = "detected"
    /\ "adjacent_boost" \notin DOMAIN response.frames[1]
    /\ response.frames[1] = frame_results[1]
    /\ "adjacent_boost" \in DOMAIN response.frames[2]
    /\ response.frames[3] = frame_results[3]

\* what section 4.6 reads of a frame
Sec46Core(frame) ==
    [face_detection_status |-> frame.face_detection_status,
     quality_score |-> frame.quality_score,
     usability |-> frame.usability,
     issues |-> frame.issues]
Sec46Window(s, i) ==
    (IF i > 1 THEN <<Sec46Core(s[i - 1])>> ELSE <<>>)
    \o (IF i < Len(s) THEN <<Sec46Core(s[i + 1])>> ELSE <<>>)

\* C15: the output for frame i is a function only of the pre-smoothing
\* status, score, usability and issues of frames i-1, i and i+1 - it is what
\* smoothing frame i alone against its uncorrected neighbours gives, whatever
\* was done to the other frames, so the order of processing is immaterial -
\* and the pass leaves the list it was given and its records as they were.
C15_WindowOnlyInputKept ==
    [][SmoothingStep =>
        LET in == frame_results
            out == response'.frames
        IN  /\ frame_results' = in
            /\ Len(out) = Len(in)
            /\ Len(in) >= 3 =>
                  \A i \in 1 .. Len(in) :
                      LET alone == SmoothFrame(Sec46Core(in[i]),
                                               Sec46Window(in, i))
                      IN  /\ DOMAIN out[i]
                                = DOMAIN in[i] \cup DOMAIN alone
                          /\ \A f \in DOMAIN alone : out[i][f] = alone[f]
                          /\ \A f \in DOMAIN in[i] \ DOMAIN alone :
                                out[i][f] = in[i][f]]_vars

\* two corrected frames side by side: an uncertain frame (43.0) after a
\* detected one (80.0) and before another uncertain one (85.0), both boosted
C15_Witness ==
    /\ HasVideoResult
    /\ Len(response.frames) >= 3
    /\ frame_results[1].face_detection_status = "detected"
    /\ frame_results[2].face_detection_status = "uncertain"
    /\ frame_results[3].face_detection_status = "uncertain"
    /\ frame_results[2].quality_score = 430
    /\ "adjacent_boost" \in DOMAIN response.frames[2]
    /\ "adjacent_boost" \in DOMAIN response.frames[3]
    /\ response.frames[2].quality_score # frame_results[2].quality_score
    /\ "adjacent_boost" \notin DOMAIN frame_results[2]

\* C16: a not_detected or uncertain frame with at least one neighbour that
\* is detected or uncertain gets the score old * (1 - w) + average(scores of
\* those neighbours) * w, with w = 0.6 (not_detected, both neighbours with
\* evidence, one at least detected), 0.5 (not_detected, both uncertain), 0.4
\* (not_detected, one neighbour with evidence), 0.3 (uncertain); it is stored
\* to the nearest tenth, with the old score and usability kept beside it.
\* Score 20 not_detected between detected 80 and 85 becomes 57.5, marginal.
C16_BlendedScore ==
    [][SmoothingStep =>
        LET in == frame_results
            out == response'.frames
        IN  \A i \in 1 .. Len(in) :
                Sec46Boostable(in, i) =>
                    /\ 2 * Abs(out[i].quality_score * 20 - Sec46Blend(in, i))
                          <= 20
                    /\ out[i].original_score = in[i].quality_score
                    /\ out[i].original_usability = in[i].usability
                    /\ (/\ in[i].face_detection_status = "not_detected"
                        /\ in[i].quality_score = 200
                        /\ 1 < i
                        /\ i < Len(in)
                        /\ in[i - 1].face_detection_status = "detected"
                        /\ in[i + 1].face_detection_status = "detected"
                        /\ in[i - 1].quality_score = 800
                        /\ in[i + 1].quality_score = 850) =>
                            /\ out[i].quality_score = 575
                            /\ out[i].usability = "marginal"
                            /\ out[i].original_score = 200]_vars

\* scenario E: 20.0 without a face between detected 80.0 and 85.0
C16_Witness ==
    /\ HasVideoResult
    /\ Len(response.frames) >= 3
    /\ frame_results[1].face_detection_status = "detected"
    /\ frame_results[1].quality_score = 800
    /\ frame_results[2].face_detection_status = "not_detected"
    /\ frame_results[2].quality_score = 200
    /\ frame_results[3].face_detection_status = "detected"
    /\ frame_results[3].quality_score = 850
    /\ response.frames[2].quality_score = 575
    /\ response.frames[2].usability = "marginal"
    /\ response.frames[2].original_score = 200
    /\ response.frames[2].original_usability = "unusable"

\* C17: a not_detected frame between two detected frames comes out with
\* adjacent_boost true, with its pre-smoothing score and usability in
\* original_score / original_usability, and with a usability that is never
\* worse than the 70/45 bucket of the raw blended score.
C17_BetweenDetected ==
    [][SmoothingStep =>
        LET in == frame_results
            out == response'.frames
        IN  \A i \in 2 .. Len(in) - 1 :
                (/\ in[i].face_detection_status = "not_detected"
                 /\ in[i - 1].face_detection_status = "detected"
                 /\ in[i + 1].face_detection_status = "detected") =>
                    LET raw == 8 * in[i].quality_score
                               + 6 * (in[i - 1].quality_score
                                      + in[i + 1].quality_score)
                    IN  /\ "adjacent_boost" \in DOMAIN out[i]
                        /\ out[i].adjacent_boost = TRUE
                        /\ out[i].original_score = in[i].quality_score
                        /\ out[i].original_usability = in[i].usability
                        /\ UsabilityRank(out[i].usability)
                              >= UsabilityRank(Sec46Bucket(raw))]_vars

\* 35.0 without a face between detected 85.0 and 100.0: 69.5, marginal
C17_Witness ==
    /\ HasVideoResult
    /\ Len(response.frames) >= 3
    /\ frame_results[1].face_detection_status = "detected"
    /\ frame_results[1].quality_score = 850
    /\ frame_results[2].face_detection_status = "not_detected"
    /\ frame_results[2].quality_score = 350
    /\ frame_results[3].face_detection_status = "detected"
    /\ frame_results[3].quality_score = 1000
    /\ response.frames[2].adjacent_boost
    /\ response.frames[2].quality_score = 695
    /\ response.frames[2].usability = "marginal"

\* C18 as stated: the stored (score, usability) pair of every boosted frame
\* satisfies the 70/45 step function: usable from 70, marginal from 45 up to
\* 70, unusable below 45.
C18_StoredPairIsStepFunction ==
    HasVideoResult =>
        \A i \in 1 .. Len(response.frames) :
            "adjacent_boost" \in DOMAIN response.frames[i] =>
                response.frames[i].usability
                    = (IF response.frames[i].quality_score >= 700 THEN "usable"
                       ELSE IF response.frames[i].quality_score >= 450
                            THEN "marginal"
                            ELSE "unusable")

\* C18, amended: the usability of a boosted frame is 'usable' if the new
\* score (before it is rounded for storage) is at least 70, 'marginal' if it
\* is at least 45 and below 70, and what it was before smoothing if the new
\* score is below 45.
C18_UpgradedOrKept ==
    [][SmoothingStep =>
        LET in == frame_results
            out == response'.frames
        IN  \A i \in 1 .. Len(in) :
                "adjacent_boost" \in DOMAIN out[i] =>
                    /\ Sec46Boostable(in, i)
                    /\ out[i].usability
                          = (IF Sec46Blend(in, i) >= 70 * 200 THEN "usable"
                             ELSE IF Sec46Blend(in, i) >= 45 * 200
                                  THEN "marginal"
                                  ELSE in[i].usability)]_vars

\* an uncertain frame of 43.0, marginal, beside a detected frame of 20.0:
\* boosted to 36.1 and still marginal
C18_Witness ==
    /\ HasVideoResult
    /\ Len(response.frames) = 3
    /\ frame_results[1].face_detection_status = "detected"
    /\ frame_results[1].quality_score = 200
    /\ frame_results[2].face_detection_status = "uncertain"
    /\ frame_results[2].quality_score = 430
    /\ frame_results[3].face_detection_status = "not_detected"
    /\ response.frames[2].adjacent_boost
    /\ response.frames[2].quality_score = 361
    /\ response.frames[2].usability = "marginal"

\* C19: smoothing only ever raises usability: for every sequence of verdicts
\* of analyze_image and every frame in it, the usability after smoothing is
\* never lower (unusable < marginal < usable) than before.
C19_NeverLowered ==
    [][SmoothingStep =>
        LET in == frame_results
            out == response'.frames
        IN  /\ Len(out) = Len(in)
            /\ \A i \in 1 .. Len(in) :
                  /\ out[i].usability \in {"usable", "marginal", "unusable"}
                  /\ UsabilityRank(out[i].usability)
                        >= UsabilityRank(in[i].usability)]_vars

\* an unusable frame without a face between two detected frames of 100.0
\* becomes usable (74.0)
C19_Witness ==
    /\ HasVideoResult
    /\ Len(response.frames) >= 3
    /\ frame_results[1].quality_score = 1000
    /\ frame_results[2].face_detection_status = "not_detected"
    /\ frame_results[2].usability = "unusable"
    /\ frame_results[3].quality_score = 1000
    /\ response.frames[2].quality_score = 740
    /\ response.frames[2].usability = "usable"

(***************************************************************************)
(* Claims about the video summary (SpecVideo).                             *)
(***************************************************************************)

\* C20: the summary is that of the frames after smoothing: in every video
\* result usable + marginal + unusable = total_frames_extracted = the number
\* of returned frames, each count is the number of returned frames in that
\* bucket, and usable_frame_indices is the ascending list of exactly the
\* frame_number values of the returned frames that are 'usable'.
C20_SummaryOfSmoothedFrames ==
    HasVideoResult =>
        LET frames == response.frames
            sum == response.summary
            idx == response.usable_frame_indices
            In(bucket) == {k \in 1 .. Len(frames) : frames[k].usability = bucket}
        IN  /\ sum.usable + sum.marginal + sum.unusable
                  = response.total_frames_extracted
            /\ response.total_frames_extracted = Len(frames)
            /\ sum.usable = Cardinality(In("usable"))
            /\ sum.marginal = Cardinality(In("marginal"))
            /\ sum.unusable = Cardinality(In("unusable"))
            /\ \A j \in 1 .. Len(idx) - 1 : idx[j] < idx[j + 1]
            /\ {idx[j] : j \in 1 .. Len(idx)}
                  = {frames[k].frame_number : k \in In("usable")}

\* three frames, the one in the middle made usable by the pass
C20_Witness ==
    /\ HasVideoResult
    /\ Len(response.frames) = 3
    /\ frame_results[1].usability = "usable"
    /\ frame_results[2].usability = "unusable"
    /\ frame_results[3].usability = "usable"
    /\ response.summary.usable = 3
    /\ response.summary.unusable = 0
    /\ response.summary.boosted_by_adjacent = 1
    /\ response.usable_frame_indices = <<0, 1, 2>>

\* C21: the recommendation of a video result follows the frames it returns
\* (the frames after smoothing): it is the 'good quality' sentence alone iff
\* at least 80% of them are usable; it opens with 'Moderate quality' iff the
\* usable share is at least 50% and below 80%, and then carries the lighting
\* note iff the too-dark frames exceed half the unusable count and the blur
\* note iff the blurry frames exceed half the unusable count; otherwise it
\* opens with 'Quality issues detected', with the critical lighting flag iff
\* the too-dark frames exceed 30% of all frames and the face-detection flag
\* iff the frames without a face exceed 30% of all frames.  (Of no frames at
\* all, no share is usable.)
C21_RecommendationText ==
    HasVideoResult =>
        LET frames == response.frames
            rec == response.recommendation
            n == Len(frames)
            Count(S) == Cardinality(S)
            usable == Count({k \in 1 .. n : frames[k].usability = "usable"})
            unusable == Count({k \in 1 .. n : frames[k].usability = "unusable"})
            dark == Count({k \in 1 .. n : frames[k].is_too_dark})
            blurred == Count({k \in 1 .. n : frames[k].is_blurry})
            faceless == Count({k \in 1 .. n : ~frames[k].face_detected})
            Says(text) == \E j \in 1 .. Len(rec) : rec[j] = text
            good == n > 0 /\ 100 * usable >= 80 * n
            moderate == n > 0 /\ 100 * usable >= 50 * n /\ 100 * usable < 80 * n
        IN  /\ good <=>
                  rec = <<"Good quality video. Most frames are suitable for annotation.">>
            /\ moderate <=> rec[1] = "Moderate quality. "
            /\ moderate =>
                  /\ Says("Consider improving lighting conditions. ")
                        <=> 2 * dark > unusable
                  /\ Says("Camera focus or motion blur issues detected. ")
                        <=> 2 * blurred > unusable
                  /\ rec[Len(rec)] = "{usable} frames are ready for annotation."
            /\ (~good /\ ~moderate) <=> rec[1] = "Quality issues detected. "
            /\ (~good /\ ~moderate) =>
                  /\ Says("CRITICAL: Lighting is too dark in many frames. ")
                        <=> 10 * dark > 3 * n
                  /\ Says("Face detection failing frequently - check camera angle and occlusion. ")
                        <=> 10 * faceless > 3 * n
                  /\ rec[Len(rec)]
                        = "Consider re-recording or adjusting NICU camera setup."

\* five frames, four of them usable and one dark: exactly 80%
C21_Witness ==
    /\ HasVideoResult
    /\ Len(response.frames) = 5
    /\ response.summary.usable = 4
    /\ response.issues.too_dark = 1
    /\ response.recommendation
          = <<"Good quality video. Most frames are suitable for annotation.">>

(***************************************************************************)
(* Claims about what the smoothing pass may surface (SpecVideo).           *)
(***************************************************************************)

\* C27 as stated: every frame listed in usable_frame_indices, and every
\* returned frame that is 'usable', has a face_detection_status other than
\* 'not_detected'.
C27_UsableHasFace ==
    HasVideoResult =>
        LET frames == response.frames
            idx == response.usable_frame_indices
        IN  \A k \in 1 .. Len(frames) :
                (\/ frames[k].usability = "usable"
                 \/ \E j \in 1 .. Len(idx) : idx[j] = frames[k].frame_number)
                    => frames[k].face_detection_status # "not_detected"

\* C27, amended: a frame listed in usable_frame_indices (a returned frame that
\* is 'usable') has a face_detection_status other than 'not_detected', unless
\* the smoothing pass boosted it from 'unusable' between two neighbours that
\* both show a face (detected or uncertain), at least one of them detected.
C27_UsableHasFaceOrNeighbours ==
    HasVideoResult =>
        LET frames == response.frames
            idx == response.usable_frame_indices
            Status(k) == frames[k].face_detection_status
        IN  \A k \in 1 .. Len(frames) :
                (/\ \/ frames[k].usability = "usable"
                    \/ \E j \in 1 .. Len(idx) : idx[j] = frames[k].frame_number
                 /\ Status(k) = "not_detected")
                    => /\ "adjacent_boost" \in DOMAIN frames[k]
                       /\ frames[k].adjacent_boost
                       /\ frames[k].original_usability = "unusable"
                       /\ 1 < k
                       /\ k < Len(frames)
                       /\ {Status(k - 1), Status(k + 1)}
                             \subseteq {"detected", "uncertain"}
                       /\ "detected" \in {Status(k - 1), Status(k + 1)}

\* a frame without a face is listed as usable: 35.0 between two detected
\* frames of 100.0
C27_Witness ==
    /\ HasVideoResult
    /\ Len(response.frames) = 3
    /\ response.frames[2].face_detection_status = "not_detected"
    /\ response.frames[2].face_detected = FALSE
    /\ response.frames[2].usability = "usable"
    /\ response.frames[2].original_score = 350
    /\ response.usable_frame_indices = <<0, 1, 2>>

\* C28: for every frame the smoothing pass marks with adjacent_boost = true,
\* the new quality_score is greater than or equal to the retained
\* original_score: a boost never lowers a frame's score.
C28_BoostNeverLowersScore ==
    HasVideoResult =>
        \A k \in 1 .. Len(response.frames) :
            ("adjacent_boost" \in DOMAIN response.frames[k]
             /\ response.frames[k].adjacent_boost)
                => response.frames[k].quality_score
                      >= response.frames[k].original_score

(***************************************************************************)
(* Claims about process_video_bytes as a whole (SpecExtraction).           *)
(***************************************************************************)

\* C22: whatever the bytes and whatever frame rate OpenCV reports for them (0
\* included), a video analysis with an extraction rate > 0 ends in a complete
\* result (metadata, summary, frames, usable_frame_indices, recommendation) or
\* in an explicit {"error": ...} object, never in a mixture and never in an
\* unhandled failure; when the stream cannot be opened, the error object is
\* returned before any frame is processed.
C22_ResultOrErrorObject ==
    (vpc # "idle" /\ processor.created /\ processor.extraction_fps > 0) =>
        /\ vpc # "raised"
        /\ vpc = "done" =>
              \/ DOMAIN response = {"error"}
              \/ /\ "error" \notin DOMAIN response
                 /\ {"fps", "total_frames_extracted", "extraction_fps",
                     "summary", "frames", "usable_frame_indices",
                     "recommendation"} \subseteq DOMAIN response
        /\ (vpc = "done" /\ "error" \in DOMAIN response) =>
              /\ Len(frame_results) = 0
              /\ extracted_count = 0
              /\ ~cap.opened

(***************************************************************************)
(* Claims about the temporary file of process_video_bytes (SpecStaging).   *)
(***************************************************************************)

\* C23: the temporary file holding the upload exists from before OpenCV is
\* handed it until the frames have been read, and no longer exists once
\* process_video_bytes has exited, whichever way: with a result, with the
\* 'Failed to decode video' object, or with an exception raised while
\* writing the file, opening it or processing frames.
C23_TempFileScoped ==
    /\ vpc \in {"staged", "reading", "extracted"} => temp_file.exists
    /\ cap.opened /\ vpc \notin {"raised", "done"} => temp_file.exists
    /\ vpc \in {"idle", "done", "raised"} => ~temp_file.exists

\* an exception while processing the first frame read: the file is gone
C23_Witness ==
    /\ vpc = "raised"
    /\ response = [raised |-> ZeroDivisionError]
    /\ cap.opened
    /\ cap.fps = 0
    /\ frame_interval = 1
    /\ ~temp_file.exists

(***************************************************************************)
(* Claims about base64 input (SpecBase64, SpecBatchView).                  *)
(***************************************************************************)

\* C24: whatever string is posted, analyze_from_base64 strips an optional
\* data-URL header and returns either the complete quality / occlusion /
\* overall structure or exactly {"error": <message>}; a string that does not
\* decode to an image, text that is not valid base64 included, gives the
\* error object and not an unhandled failure.
C24_StructureOrErrorObject ==
    pc = "base64" =>
        /\ "raised" \notin DOMAIN result
        /\ \/ DOMAIN result = {"error"}
           \/ /\ {"quality", "occlusion", "overall"} \subseteq DOMAIN result
              /\ "error" \notin DOMAIN result
        /\ (\/ B64Decode(StripHeader(base64_image.text)).raised
            \/ base64_image.picture = NoPicture)
              => DOMAIN result = {"error"}

\* C25: for every non-empty list of n base64 strings, analyze_batch returns n
\* results, the one at position i carrying index i; a string that does not
\* decode is an error entry at its own position and leaves the other results
\* what they would be alone; summary.total = n and summary.usable +
\* marginal + unusable is the number of results that are not error entries.
C25_BatchResults ==
    (bpc \in {"done", "raised"} /\ images # <<>>) =>
        /\ bpc = "done"
        /\ LET res == batch_response.results
               sum == batch_response.summary
               n == Len(images)
               Decodes(k) ==
                   /\ ~B64Decode(StripHeader(images[k].text)).raised
                   /\ images[k].picture # NoPicture
           IN  /\ Len(res) = n
               /\ \A k \in 1 .. n :
                     /\ res[k].index = k - 1
                     /\ "error" \in DOMAIN res[k] <=> ~Decodes(k)
                     /\ Decodes(k) =>
                           res[k] = ResultDict(QualityAnalyze(images[k].picture),
                                               OcclusionAnalyze(detector,
                                                                images[k].picture))
                                    @@ [index |-> k - 1]
               /\ sum.total = n
               /\ sum.usable + sum.marginal + sum.unusable
                     = Cardinality({k \in 1 .. n : "error" \notin DOMAIN res[k]})

(***************************************************************************)
(* Claims about the ConnectionManager of routers/ws.py (SpecWs).           *)
(***************************************************************************)

\* C26: when a broadcast call is over, every connection that was in
\* active_connections from its start to its end and whose send did not fail
\* has been sent the message exactly once, whatever connected, disconnected
\* or was removed by another broadcast while this one was suspended.
C26_SentExactlyOnce ==
    \A ws \in WebSockets :
        handler[ws] \in {"returning", "raising"} =>
            \A c \in present[ws] :
                c \notin Range(disconnected[ws]) =>
                    Cardinality({k \in 1 .. Len(sent[ws]) : sent[ws][k] = c}) = 1

\* C29: a connection is removed from active_connections at most once:
\* neither disconnect(ws), called for a client's WebSocketDisconnect, nor the
\* removal loop of a broadcast ever raises, and once disconnect(ws) is over
\* ws is not in active_connections.
C29_RemovedAtMostOnce ==
    \A ws \in WebSockets :
        /\ handler[ws] \notin {"raising", ValueError}
        /\ handler[ws] = "closed" => ws \notin Range(active_connections)

(***************************************************************************)
(* Claims about get_processor (SpecSingleton).                             *)
(***************************************************************************)

\* C30: however calls of get_processor from concurrent requests interleave,
\* the processor handed to a caller has the extraction_fps that caller asked
\* for; no step changes the extraction_fps of a processor that exists; and a
\* processor is only made when the rate asked for differs from that of the
\* processor it replaces, so that the same instance is reused while the rate
\* asked for is unchanged.
C30_RequestedRateEveryInterleaving ==
    [][/\ \A t \in Threads :
            gpc'[t] = "handed" =>
                instances'[handed'[t]].extraction_fps = requested'[t]
       /\ \A p \in 1 .. Len(instances) :
            /\ p <= Len(instances')
            /\ instances'[p] = instances[p]
       /\ \A p \in 1 .. Len(instances') - 1 :
            instances'[p].extraction_fps # instances'[p + 1].extraction_fps]_vars

====
